---- MODULE Spec2Model ----
(***************************************************************************)
(* A model of workspace.py, the workspace management CLI.                  *)
(*                                                                         *)
(* The program is a set of command handlers over the filesystem.  The      *)
(* filesystem is a function from canonical absolute paths (sequences of    *)
(* names) to nodes: directories, files and symbolic links.  Each command   *)
(* handler is one action; what it prints is recorded in `out`, its exit    *)
(* code in `exit`.                                                          *)
(***************************************************************************)
EXTENDS Integers, Sequences, FiniteSets, TLC

VARIABLES
    fs,      \* the filesystem: canonical path -> node
    net,     \* the remotes `git clone` succeeds for
    git,     \* what git answers in each repository, by repository path
    last,    \* the command line of the last run
    out,     \* what the last run printed, one record per line or section
    exit,    \* the exit code of the last run
    raised,  \* the uncaught exception that ended the last run, "" if none
    snaps,   \* setup: the filesystem before each repository entry, and after the last
    trace    \* gitcheck: the git calls made, the status of each repository, the tallies

vars == <<fs, net, git, last, out, exit, raised, snaps, trace>>

(***************************************************************************)
(* Bounds of the model.                                                    *)
(***************************************************************************)
\* How many symbolic links one path resolution follows before giving up.
MaxSymlinkHops == 3
\* The longest manifest.
MaxRepos == 2
\* How deep a copied directory tree goes.
MaxCopyDepth == 4

(***************************************************************************)
(* Paths and nodes.                                                        *)
(***************************************************************************)
Root == <<>>
\* The current directory, which is also the directory holding workspace.py.
Cwd == <<"w">>
Home == <<"home">>

Parent(p) == SubSeq(p, 1, Len(p) - 1)
BaseName(p) == p[Len(p)]

DirNode == [kind |-> "dir"]
FileNode(d) == [kind |-> "file", data |-> d]
LinkNode(t) == [kind |-> "link", target |-> t]
\* A link target: absolute, or relative to the directory holding the link.
AbsTarget(p) == [abs |-> TRUE, comps |-> p]
RelTarget(p) == [abs |-> FALSE, comps |-> p]

\* Follow `rest` from the canonical directory `cur`, resolving symbolic links
\* (at most `fuel` of them) and "..".  ok: the path names an existing node;
\* path: its canonical path, or as far as resolution got plus what is left.
RECURSIVE Walk(_, _, _, _)
Walk(f, cur, rest, fuel) ==
    IF rest = <<>> THEN [ok |-> TRUE, path |-> cur]
    ELSE LET c == Head(rest)
             r == Tail(rest)
             q == Append(cur, c)
         IN  IF c = ".."
             THEN Walk(f, IF cur = Root THEN Root ELSE Parent(cur), r, fuel)
             ELSE IF q \notin DOMAIN f
             THEN [ok |-> FALSE, path |-> cur \o rest]
             ELSE IF f[q].kind = "link"
             THEN IF fuel = 0
                  THEN [ok |-> FALSE, path |-> cur \o rest]
                  ELSE Walk(f, IF f[q].target.abs THEN Root ELSE cur,
                            f[q].target.comps \o r, fuel - 1)
             ELSE IF f[q].kind = "dir"
             THEN Walk(f, q, r, fuel)
             ELSE IF r = <<>>
             THEN [ok |-> TRUE, path |-> q]
             ELSE [ok |-> FALSE, path |-> cur \o rest]

Stat(f, p) == Walk(f, Root, p, MaxSymlinkHops)
\* Path.exists(): follows symbolic links.
Exists(f, p) == Stat(f, p).ok
\* Path.resolve(): the canonical path, also of a path that does not exist.
Resolve(f, p) == Stat(f, p).path
\* Path.is_dir(): follows symbolic links.
IsDir(f, p) ==
    LET s == Stat(f, p) IN s.ok /\ (s.path = Root \/ f[s.path].kind = "dir")
\* The place of the node p itself: its directory resolved, its name kept.
LPath(f, p) == IF p = Root THEN Root ELSE Append(Resolve(f, Parent(p)), BaseName(p))
\* The node p itself is there, whatever it is (lstat succeeds).
LExists(f, p) == p = Root \/ (IsDir(f, Parent(p)) /\ LPath(f, p) \in DOMAIN f)
\* Path.is_symlink()
IsSymlink(f, p) == p # Root /\ LExists(f, p) /\ f[LPath(f, p)].kind = "link"

\* The paths at or below p.
IsPrefix(p, q) == Len(p) <= Len(q) /\ SubSeq(q, 1, Len(p)) = p
Subtree(f, p) == {q \in DOMAIN f : IsPrefix(p, q)}

(***************************************************************************)
(* Filesystem operations.  Each returns [fs, out, err]: the new            *)
(* filesystem, the lines printed, and the exception raised ("" if none).   *)
(***************************************************************************)
Ok(f) == [fs |-> f, out |-> <<>>, err |-> ""]
Say(f, line) == [fs |-> f, out |-> <<line>>, err |-> ""]
Raise(f, e) == [fs |-> f, out |-> <<>>, err |-> e]
Put(f, p, node) == (p :> node) @@ f

\* The one element of a singleton.  Val({F(x) : x \in {e}}) is F(e) with e
\* evaluated once, however often F uses it.
Val(S) == CHOOSE y \in S : TRUE

\* r followed by the step result t: what is printed accumulates.
Then(r, t) ==
    Val({ [fs |-> u.fs, out |-> r.out \o u.out, err |-> u.err] : u \in {t} })

\* Run Op on the result of r unless r raised.
Bind(r, Op(_)) ==
    Val({ IF x.err # "" THEN x ELSE Then(x, Op(x.fs)) : x \in {r} })

\* Path.mkdir(exist_ok=...)
Mkdir(f, p, exist_ok) ==
    IF ~IsDir(f, Parent(p)) THEN Raise(f, "FileNotFoundError")
    ELSE IF LExists(f, p)
    THEN IF exist_ok /\ IsDir(f, p) THEN Ok(f) ELSE Raise(f, "FileExistsError")
    ELSE Ok(Put(f, LPath(f, p), DirNode))

\* Path.symlink_to(target)
SymlinkTo(f, p, target) ==
    IF ~IsDir(f, Parent(p)) THEN Raise(f, "FileNotFoundError")
    ELSE IF LExists(f, p) THEN Raise(f, "FileExistsError")
    ELSE Ok(Put(f, LPath(f, p), LinkNode(target)))

\* open(p, "w") / Path.write_text: writes through symbolic links.
WriteFile(f, p, d) ==
    LET s == Stat(f, p)
    IN  IF s.ok
        THEN IF s.path # Root /\ f[s.path].kind = "file"
             THEN Ok(Put(f, s.path, FileNode(d)))
             ELSE Raise(f, "IsADirectoryError")
        ELSE IF s.path # Root /\ IsDir(f, Parent(s.path))
                  /\ Resolve(f, Parent(s.path)) = Parent(s.path)
                  /\ s.path \notin DOMAIN f
        THEN Ok(Put(f, s.path, FileNode(d)))
        ELSE Raise(f, "FileNotFoundError")

\* os.makedirs(p, exist_ok=True), as git clone makes the leading directories.
RECURSIVE MkdirP(_, _)
MkdirP(f, p) ==
    IF IsDir(f, p) THEN Ok(f)
    ELSE IF p = Root \/ LExists(f, p) THEN Raise(f, "FileExistsError")
    ELSE Bind(MkdirP(f, Parent(p)), LAMBDA g : Mkdir(g, p, FALSE))

\* The names in the directory whose canonical path is d.
Children(f, d) == {q \in DOMAIN f : Len(q) = Len(d) + 1 /\ Parent(q) = d}

\* shutil.copy2(src, dst): the contents of the file src names, links followed.
Copy2(f, src, dst) ==
    LET s == Stat(f, src)
    IN  IF ~s.ok THEN Raise(f, "FileNotFoundError")
        ELSE IF s.path = Root \/ f[s.path].kind # "file" THEN Raise(f, "IsADirectoryError")
        ELSE WriteFile(f, dst, f[s.path].data)

\* shutil.rmtree(p)
RmTree(f, p) ==
    IF ~LExists(f, p) THEN Raise(f, "FileNotFoundError")
    ELSE IF IsSymlink(f, p) THEN Raise(f, "OSError")
    ELSE Ok([q \in DOMAIN f \ Subtree(f, LPath(f, p)) |-> f[q]])

\* What shutil.copytree(src, dst) writes, as <<path, node>> pairs, for the
\* existing directory with canonical path src: symbolic links are followed
\* (symlinks=False), so what they point at is copied in their place.
RECURSIVE CopyTreePairs(_, _, _, _)
CopyTreePairs(f, src, dst, depth) ==
    {<<dst, DirNode>>}
    \cup UNION { LET s == Stat(f, c)
                     to == Append(dst, BaseName(c))
                 IN  IF ~s.ok \/ depth = 0 THEN {}
                     ELSE IF s.path = Root \/ f[s.path].kind = "dir"
                     THEN CopyTreePairs(f, s.path, to, depth - 1)
                     ELSE {<<to, FileNode(f[s.path].data)>>}
               : c \in Children(f, src) }

\* A link below src (links followed) that points at nothing: copytree copies
\* the rest and then raises shutil.Error.
RECURSIVE HasDangling(_, _, _)
HasDangling(f, src, depth) ==
    \E c \in Children(f, src) :
        LET s == Stat(f, c)
        IN  \/ ~s.ok
            \/ depth = 0
            \/ /\ s.path # Root
               /\ f[s.path].kind = "dir"
               /\ HasDangling(f, s.path, depth - 1)

\* shutil.copytree(src, dst)
CopyTree(f, src, dst) ==
    IF ~IsDir(f, src) THEN Raise(f, "NotADirectoryError")
    ELSE IF LExists(f, dst) THEN Raise(f, "FileExistsError")
    ELSE IF ~IsDir(f, Parent(dst)) THEN Raise(f, "FileNotFoundError")
    ELSE Val({ LET g == [q \in DOMAIN f \cup {x[1] : x \in pairs} |->
                            IF \E x \in pairs : x[1] = q
                            THEN (CHOOSE x \in pairs : x[1] = q)[2]
                            ELSE f[q]]
               IN  IF HasDangling(f, Resolve(f, src), MaxCopyDepth)
                   THEN Raise(g, "shutil.Error")
                   ELSE Ok(g)
               : pairs \in {CopyTreePairs(f, Resolve(f, src), LPath(f, dst), MaxCopyDepth)} })

(***************************************************************************)
(* The manifest.  A parsed workspace.toml is a record that has only the    *)
(* keys the file sets; a repository entry likewise.  Strings that name     *)
(* paths are sequences of their components ("~/local/b" is                 *)
(* <<"~", "local", "b">>); other strings are one-element sequences; the    *)
(* empty string is <<>>.                                                   *)
(***************************************************************************)
\* `if x := d.get(k)`: the key is there and its value is not empty.
Truthy(d, k) == k \in DOMAIN d /\ d[k] # <<>>

\* Path(s).expanduser().resolve()
ExpandUser(s) ==
    IF s # <<>> /\ Head(s) = "~" THEN Home \o Tail(s)
    ELSE IF s # <<>> /\ Head(s) = "/" THEN Tail(s)
    ELSE Cwd \o s
ExpandResolve(f, s) == Resolve(f, ExpandUser(s))

STARTER_SETTINGS == [permissions |-> [allow |-> <<"Read", "Edit", "Write", "WebSearch">>]]

\* The lines of the repository list of CLAUDE.md.
RECURSIVE ReposLines(_)
ReposLines(repos) ==
    IF repos = <<>> THEN <<>>
    ELSE LET repo_path == IF "path" \in DOMAIN Head(repos) THEN Head(repos).path ELSE <<>>
         IN  <<IF repo_path # <<>> THEN BaseName(repo_path) ELSE "unknown">>
             \o ReposLines(Tail(repos))

CLAUDE_MD_TEMPLATE(name, description, repos_list) ==
    [name |-> name, description |-> description, repos_list |-> repos_list]

(***************************************************************************)
(* SETUP command                                                           *)
(***************************************************************************)
\* subprocess.run finds the program on the PATH, or raises FileNotFoundError.
OnPath(f, program) == Exists(f, <<"usr", "bin", program>>)

\* `git clone remote target`: a working tree with a .git directory, the
\* leading directories made; a non-zero exit is CalledProcessError.
GitClone(f, remote, target, working) ==
    IF ~OnPath(f, "git")
    THEN Raise(f, "FileNotFoundError")
    ELSE IF remote \notin working \/ LExists(f, target)
    THEN Raise(f, "CalledProcessError")
    ELSE Val({ IF made.err # "" THEN Raise(f, "CalledProcessError")
               ELSE LET t == LPath(made.fs, target)
                    IN  Ok(Put(Put(made.fs, Append(t, ".git"), DirNode),
                               t \o <<".git", "config">>,
                               FileNode([origin |-> remote])))
               : made \in {Bind(MkdirP(f, Parent(target)),
                                LAMBDA g : Mkdir(g, target, FALSE))} })

\* The statements of setup_claude_symlinks after its early return, in order.
ClaudeSymlinksStep(i, f, workspace_path) ==
    LET parent_claude == Cwd \o <<".claude">>
        workspace_claude == workspace_path \o <<".claude">>
        agents_core == workspace_claude \o <<"agents", "core">>
        skills_core == workspace_claude \o <<"skills", "core">>
        settings_file == workspace_claude \o <<"settings.local.json">>
        LinkCore(core, sub) ==
            IF ~Exists(f, core) /\ Exists(f, parent_claude \o <<sub>>)
            THEN Bind(SymlinkTo(f, core, RelTarget(<<"..", "..", "..", ".claude", sub>>)),
                      LAMBDA h : Say(h, [msg |-> "Linked core", which |-> sub]))
            ELSE Ok(f)
    IN  CASE i = 1 -> Mkdir(f, workspace_claude, TRUE)
          [] i = 2 -> Mkdir(f, workspace_claude \o <<"agents">>, TRUE)
          [] i = 3 -> Mkdir(f, workspace_claude \o <<"skills">>, TRUE)
          [] i = 4 -> LinkCore(agents_core, "agents")
          [] i = 5 -> LinkCore(skills_core, "skills")
          [] i = 6 -> IF ~Exists(f, settings_file)
                      THEN Bind(WriteFile(f, settings_file, STARTER_SETTINGS),
                                LAMBDA h : Say(h, [msg |-> "Created settings.local.json"]))
                      ELSE Ok(f)

\* Steps i..6 after r, stopping at the first that raises.
RECURSIVE ClaudeSymlinksFrom(_, _, _)
ClaudeSymlinksFrom(i, r, workspace_path) ==
    IF i > 6 \/ r.err # "" THEN r
    ELSE Val({ ClaudeSymlinksFrom(i + 1, n, workspace_path)
               : n \in {Then(r, ClaudeSymlinksStep(i, r.fs, workspace_path))} })

SetupClaudeSymlinks(f, workspace_path) ==
    IF ~Exists(f, Cwd \o <<".claude">>)
    THEN Say(f, [msg |-> "Warning: Parent .claude directory not found"])
    ELSE ClaudeSymlinksFrom(1, Ok(f), workspace_path)

\* SetupRepo with the remote looked at before the source.
SetupRepoRemoteFirst(f, workspace_path, repo, working) ==
    LET path == repo.path
        target_path == workspace_path \o path
    IN  IF Exists(f, target_path) \/ IsSymlink(f, target_path)
        THEN Say(f, [msg |-> "already exists", path |-> path])
        ELSE IF Truthy(repo, "remote")
        THEN Val({ IF c.err = "CalledProcessError"
                   THEN Say(f, [msg |-> "Failed to clone", remote |-> repo.remote])
                   ELSE Bind(c, LAMBDA g : Say(g, [msg |-> "Cloned", path |-> path,
                                                   remote |-> repo.remote]))
                   : c \in {GitClone(f, repo.remote, target_path, working)} })
        ELSE IF Truthy(repo, "source")
        THEN LET source_path == ExpandResolve(f, repo.source)
             IN  IF ~Exists(f, source_path)
                 THEN Say(f, [msg |-> "source doesn't exist", path |-> path,
                              source |-> repo.source])
                 ELSE Bind(SymlinkTo(f, target_path, AbsTarget(source_path)),
                           LAMBDA g : Say(g, [msg |-> "Linked", path |-> path,
                                              source |-> repo.source]))
        ELSE Say(f, [msg |-> "no remote or source, skipping", path |-> path])

\* One pass of the body of the repository loop.
SetupRepo(f, workspace_path, repo, working) ==
    LET path == repo.path
        target_path == workspace_path \o path
    IN  IF Exists(f, target_path) \/ IsSymlink(f, target_path)
        THEN Say(f, [msg |-> "already exists", path |-> path])
        ELSE IF Truthy(repo, "source")
        THEN LET source_path == ExpandResolve(f, repo.source)
             IN  IF ~Exists(f, source_path)
                 THEN Say(f, [msg |-> "source doesn't exist", path |-> path,
                              source |-> repo.source])
                 ELSE Bind(SymlinkTo(f, target_path, AbsTarget(source_path)),
                           LAMBDA g : Say(g, [msg |-> "Linked", path |-> path,
                                              source |-> repo.source]))
        ELSE IF Truthy(repo, "remote")
        THEN Val({ IF c.err = "CalledProcessError"
                   THEN Say(f, [msg |-> "Failed to clone", remote |-> repo.remote])
                   ELSE Bind(c, LAMBDA g : Say(g, [msg |-> "Cloned", path |-> path,
                                                   remote |-> repo.remote]))
                   : c \in {GitClone(f, repo.remote, target_path, working)} })
        ELSE Say(f, [msg |-> "no remote or source, skipping", path |-> path])

\* The repository loop; snaps is the filesystem before each pass.
RECURSIVE SetupRepos(_, _, _, _)
SetupRepos(f, workspace_path, repos, working) ==
    IF repos = <<>> THEN [fs |-> f, out |-> <<>>, err |-> "", snaps |-> <<f>>]
    ELSE Val({ IF r.err # "" THEN [fs |-> r.fs, out |-> r.out, err |-> r.err, snaps |-> <<f>>]
               ELSE Val({ [fs |-> s.fs, out |-> r.out \o s.out, err |-> s.err,
                           snaps |-> <<f>> \o s.snaps]
                          : s \in {SetupRepos(r.fs, workspace_path, Tail(repos), working)} })
               : r \in {SetupRepo(f, workspace_path, Head(repos), working)} })

\* The statements of cmd_setup before the repository loop, in order.
ScaffoldStep(i, f, workspace, workspace_path, config) ==
    LET plans_dir == workspace_path \o <<"plans">>
        claude_md == workspace_path \o <<"CLAUDE.md">>
        name == IF "name" \in DOMAIN config THEN config.name ELSE workspace
        description == IF "description" \in DOMAIN config
                       THEN config.description
                       ELSE <<"[Description of this workspace]">>
        content == CLAUDE_MD_TEMPLATE(name, description, ReposLines(config.repos))
    IN  CASE i = 1 -> Mkdir(f, workspace_path \o <<"repos">>, TRUE)
          [] i = 2 -> IF ~Exists(f, plans_dir)
                      THEN Bind(Mkdir(f, plans_dir, FALSE),
                                LAMBDA h : Say(h, [msg |-> "Created plans/"]))
                      ELSE Ok(f)
          [] i = 3 -> IF ~Exists(f, claude_md)
                      THEN Bind(WriteFile(f, claude_md, content),
                                LAMBDA h : Say(h, [msg |-> "Created CLAUDE.md from template"]))
                      ELSE Ok(f)
          [] i = 4 -> SetupClaudeSymlinks(f, workspace_path)

RECURSIVE ScaffoldFrom(_, _, _, _, _)
ScaffoldFrom(i, r, workspace, workspace_path, config) ==
    IF i > 4 \/ r.err # "" THEN r
    ELSE Val({ ScaffoldFrom(i + 1, n, workspace, workspace_path, config)
               : n \in {Then(r, ScaffoldStep(i, r.fs, workspace, workspace_path, config))} })

SetupScaffold(f, workspace, workspace_path, config) ==
    ScaffoldFrom(1, Ok(f), workspace, workspace_path, config)

\* cmd_setup: [fs, out, exit, raised, snaps].
CmdSetup(f, workspace, working) ==
    LET workspace_path == Cwd \o workspace
        workspace_toml == workspace_path \o <<"workspace.toml">>
        Fatal(line) == [fs |-> f, out |-> <<line>>, exit |-> 1, raised |-> "", snaps |-> <<>>]
    IN  IF ~Exists(f, workspace_path)
        THEN Fatal([msg |-> "Error: Workspace not found", workspace |-> workspace])
        ELSE IF ~Exists(f, workspace_toml)
        THEN Fatal([msg |-> "Error: workspace.toml not found", workspace |-> workspace])
        ELSE LET config == f[Resolve(f, workspace_toml)].data
                 Loop(a) ==
                     Val({ IF b.err # ""
                           THEN [fs |-> b.fs, out |-> a.out \o b.out, exit |-> 1,
                                 raised |-> b.err, snaps |-> b.snaps]
                           ELSE [fs |-> b.fs,
                                 out |-> a.out \o b.out \o <<[msg |-> "Workspace is ready!"]>>,
                                 exit |-> 0, raised |-> "", snaps |-> b.snaps]
                           : b \in {SetupRepos(a.fs, workspace_path, config.repos, working)} })
             IN  IF "repos" \notin DOMAIN config
                 THEN Fatal([msg |-> "Error: No 'repos' section found in workspace.toml"])
                 ELSE Val({ IF a.err # ""
                            THEN [fs |-> a.fs, out |-> a.out, exit |-> 1, raised |-> a.err,
                                  snaps |-> <<>>]
                            ELSE Loop(a)
                            : a \in {SetupScaffold(f, workspace, workspace_path, config)} })

(***************************************************************************)
(* EXPORT command                                                          *)
(***************************************************************************)
\* The repository entries that name a local source.
RECURSIVE SourceEntries(_)
SourceEntries(repos) ==
    IF repos = <<>> THEN <<>>
    ELSE (IF Truthy(Head(repos), "source") THEN <<Head(repos)>> ELSE <<>>)
         \o SourceEntries(Tail(repos))

\* The note about source entries: a heading and one line per entry.
RECURSIVE SourceLines(_)
SourceLines(entries) ==
    IF entries = <<>> THEN <<>>
    ELSE <<[msg |-> "source entry", path |-> Head(entries).path,
            source |-> Head(entries).source]>>
         \o SourceLines(Tail(entries))

SourceNote(config) ==
    LET source_entries ==
            SourceEntries(IF "repos" \in DOMAIN config THEN config.repos ELSE <<>>)
    IN  IF source_entries # <<>>
        THEN <<[msg |-> "Note: local source entries", count |-> Len(source_entries)]>>
             \o SourceLines(source_entries)
        ELSE <<>>

\* The root documentation files: copied, or reported as not found.
ExportRootFile(f, root_dir, export_path, filename) ==
    IF Exists(f, root_dir \o <<filename>>)
    THEN Bind(Copy2(f, root_dir \o <<filename>>, export_path \o <<filename>>),
              LAMBDA g : Say(g, [msg |-> "Copied", what |-> <<filename>>]))
    ELSE Say(f, [msg |-> "No root file found", what |-> <<filename>>])

\* The root .claude/agents or .claude/skills: a fresh copy, or an empty directory.
ExportRootClaude(f, root_dir, export_path, subdir) ==
    LET src_dir == root_dir \o <<".claude", subdir>>
        dest_dir == export_path \o <<".claude", subdir>>
    IN  IF Exists(f, src_dir) /\ IsDir(f, src_dir)
        THEN Bind(Bind(IF Exists(f, dest_dir) THEN RmTree(f, dest_dir) ELSE Ok(f),
                  LAMBDA g : CopyTree(g, src_dir, dest_dir)),
                  LAMBDA g : Say(g, [msg |-> "Copied", what |-> <<".claude", subdir>>,
                                     count |-> Cardinality(Children(g, LPath(g, dest_dir)))]))
        ELSE Bind(Mkdir(f, dest_dir, TRUE),
                  LAMBDA g : Say(g, [msg |-> "Created (empty)", what |-> <<".claude", subdir>>]))

\* One item of the workspace's .claude/agents or .claude/skills.
ExportItem(f, item, dest_dir) ==
    IF f[item].kind # "link"
    THEN LET dest_item == dest_dir \o <<BaseName(item)>>
         IN  IF IsDir(f, item)
             THEN Bind(IF Exists(f, dest_item) THEN RmTree(f, dest_item) ELSE Ok(f),
                       LAMBDA g : CopyTree(g, item, dest_item))
             ELSE Copy2(f, item, dest_item)
    ELSE Ok(f)

\* The loop over the items of one directory, in any order: the items are
\* written to different names.
RECURSIVE ExportItems(_, _, _)
ExportItems(f, items, dest_dir) ==
    IF items = {} THEN Ok(f)
    ELSE LET item == CHOOSE i \in items : TRUE
         IN  Bind(ExportItem(f, item, dest_dir),
                  LAMBDA g : ExportItems(g, items \ {item}, dest_dir))

\* The workspace's own .claude/agents or .claude/skills, links skipped.
ExportWsClaude(f, ws_claude, dest_claude, workspace, subdir) ==
    LET src_dir == ws_claude \o <<subdir>>
        dest_dir == dest_claude \o <<subdir>>
    IN  IF Exists(f, src_dir) /\ IsDir(f, src_dir)
        THEN LET items == Children(f, Resolve(f, src_dir))
                 copied == Cardinality({i \in items : f[i].kind # "link"})
             IN  Bind(Bind(Mkdir(f, dest_dir, TRUE),
                      LAMBDA g : ExportItems(g, items, dest_dir)),
                      LAMBDA g : IF copied # 0
                                 THEN Say(g, [msg |-> "Copied items", count |-> copied,
                                              what |-> workspace \o <<".claude", subdir>>])
                                 ELSE Ok(g))
        ELSE Ok(f)

\* The statements of cmd_export after its two checks, in order.
ExportStep(i, f, workspace, workspace_path, export_path) ==
    LET root_dir == Cwd
        workspace_toml == workspace_path \o <<"workspace.toml">>
        ws_export == export_path \o workspace
        ws_claude_md == workspace_path \o <<"CLAUDE.md">>
        ws_plans == workspace_path \o <<"plans">>
        dest_plans == ws_export \o <<"plans">>
        ws_claude == workspace_path \o <<".claude">>
        dest_claude == ws_export \o <<".claude">>
    IN  CASE i = 1 -> Bind(MkdirP(f, export_path),
                           LAMBDA h : Say(h, [msg |-> "Exporting to", what |-> export_path]))
          [] i = 2 -> Bind(Copy2(f, Cwd \o <<"workspace.py">>,
                                 export_path \o <<"workspace.py">>),
                           LAMBDA h : Say(h, [msg |-> "Copied", what |-> <<"workspace.py">>]))
          [] i = 3 -> ExportRootFile(f, root_dir, export_path, "CLAUDE.md")
          [] i = 4 -> ExportRootFile(f, root_dir, export_path, "README.md")
          [] i = 5 -> Mkdir(f, export_path \o <<".claude">>, TRUE)
          [] i = 6 -> ExportRootClaude(f, root_dir, export_path, "agents")
          [] i = 7 -> ExportRootClaude(f, root_dir, export_path, "skills")
          [] i = 8 -> Mkdir(f, ws_export, TRUE)
          [] i = 9 -> Bind(Copy2(f, workspace_toml, ws_export \o <<"workspace.toml">>),
                           LAMBDA h : Say(h, [msg |-> "Copied",
                                              what |-> workspace \o <<"workspace.toml">>]))
          [] i = 10 -> IF Exists(f, ws_claude_md)
                       THEN Bind(Copy2(f, ws_claude_md, ws_export \o <<"CLAUDE.md">>),
                                 LAMBDA h : Say(h, [msg |-> "Copied",
                                                    what |-> workspace \o <<"CLAUDE.md">>]))
                       ELSE Ok(f)
          [] i = 11 -> IF Exists(f, ws_plans) /\ IsDir(f, ws_plans)
                       THEN Bind(Bind(IF Exists(f, dest_plans) THEN RmTree(f, dest_plans)
                                                               ELSE Ok(f),
                                 LAMBDA h : CopyTree(h, ws_plans, dest_plans)),
                                 LAMBDA h : Say(h, [msg |-> "Copied",
                                                    what |-> workspace \o <<"plans">>]))
                       ELSE Ok(f)
          [] i = 12 -> IF Exists(f, ws_claude) THEN Mkdir(f, dest_claude, TRUE) ELSE Ok(f)
          [] i = 13 -> IF Exists(f, ws_claude)
                       THEN ExportWsClaude(f, ws_claude, dest_claude, workspace, "agents")
                       ELSE Ok(f)
          [] i = 14 -> IF Exists(f, ws_claude)
                       THEN ExportWsClaude(f, ws_claude, dest_claude, workspace, "skills")
                       ELSE Ok(f)
          [] i = 15 -> [fs |-> f, out |-> SourceNote(f[Resolve(f, workspace_toml)].data),
                        err |-> ""]

RECURSIVE ExportFrom(_, _, _, _, _)
ExportFrom(i, r, workspace, workspace_path, export_path) ==
    IF i > 15 \/ r.err # "" THEN r
    ELSE Val({ ExportFrom(i + 1, n, workspace, workspace_path, export_path)
               : n \in {Then(r, ExportStep(i, r.fs, workspace, workspace_path, export_path))} })

ExportCopy(f, workspace, workspace_path, export_path) ==
    ExportFrom(1, Ok(f), workspace, workspace_path, export_path)

\* cmd_export: [fs, out, exit, raised].
CmdExport(f, workspace, destination) ==
    LET workspace_path == Cwd \o workspace
        export_path == ExpandResolve(f, destination)
        workspace_toml == workspace_path \o <<"workspace.toml">>
        Fatal(line) == [fs |-> f, out |-> <<line>>, exit |-> 1, raised |-> ""]
    IN  IF ~Exists(f, workspace_path)
        THEN Fatal([msg |-> "Error: Workspace not found", workspace |-> workspace])
        ELSE IF ~Exists(f, workspace_toml)
        THEN Fatal([msg |-> "Error: workspace.toml not found", workspace |-> workspace])
        ELSE Val({ IF r.err # ""
                   THEN [fs |-> r.fs, out |-> r.out, exit |-> 1, raised |-> r.err]
                   ELSE [fs |-> r.fs, out |-> r.out \o <<[msg |-> "Export complete!"]>>,
                         exit |-> 0, raised |-> ""]
                   : r \in {ExportCopy(f, workspace, workspace_path, export_path)} })

(***************************************************************************)
(* The environments setup and export are run in.                           *)
(***************************************************************************)
TopWs == <<"demo">>
NestedWs == <<"grp", "proj">>
WsArgs == {TopWs, NestedWs}

PathA == <<"repos", "a">>
PathB == <<"repos", "b">>
RemoteA == <<"https://x/a.git">>
RemoteB == <<"https://x/b.git">>
SourceB == <<"~", "local", "b">>
\* Where ~/local/b points when it exists.
StoreB == Home \o <<"store", "b">>

RepoEntries ==
    { [path |-> PathA, remote |-> RemoteA],
      [path |-> PathB, source |-> SourceB],
      [path |-> PathB],
      [path |-> PathA, remote |-> RemoteB, source |-> SourceB],
      [path |-> PathB, remote |-> RemoteB, source |-> <<>>],
      [path |-> PathA, source |-> SourceB] }

RECURSIVE SeqsUpTo(_, _)
SeqsUpTo(S, n) ==
    IF n = 0 THEN {<<>>}
    ELSE LET shorter == SeqsUpTo(S, n - 1)
         IN  shorter \cup {Append(q, e) : q \in {r \in shorter : Len(r) = n - 1}, e \in S}

Manifests == SeqsUpTo(RepoEntries, MaxRepos)
Configs == {[name |-> <<"Demo">>]} \cup {[repos |-> m] : m \in Manifests}

\* A function from paths to nodes, from a set of <<path, node>> pairs.
Tree(pairs) == [p \in {x[1] : x \in pairs} |-> (CHOOSE x \in pairs : x[1] = p)[2]]
Under(base, pairs) == {<<base \o x[1], x[2]>> : x \in pairs}

UserFile == FileNode([user |-> "content"])

\* The machine outside the workspace: src says whether ~/local/b is there (a
\* link to the directory it is kept in), pc what the parent .claude holds.
Machine(src, pc) ==
    { <<Cwd, DirNode>>, <<Cwd \o <<"grp">>, DirNode>>, <<Home, DirNode>>,
      <<Home \o <<"local">>, DirNode>>, <<Home \o <<"store">>, DirNode>>,
      <<Cwd \o <<"workspace.py">>, FileNode([script |-> "workspace.py"])>>,
      <<Cwd \o <<"CLAUDE.md">>, FileNode([doc |-> "root CLAUDE.md"])>> }
    \cup (IF src THEN { <<StoreB, DirNode>>, <<StoreB \o <<".git">>, DirNode>>,
                        <<Home \o <<"local", "b">>, LinkNode(RelTarget(<<"..", "store", "b">>))>> }
                 ELSE {})
    \cup (IF pc = "none" THEN {} ELSE
            { <<Cwd \o <<".claude">>, DirNode>>, <<Cwd \o <<".claude", "agents">>, DirNode>>,
              <<Cwd \o <<".claude", "agents", "reviewer.md">>, FileNode([agent |-> "reviewer"])>> })
    \cup (IF pc = "both" THEN { <<Cwd \o <<".claude", "skills">>, DirNode>>,
                                <<Cwd \o <<"README.md">>, FileNode([doc |-> "README"])>> }
                         ELSE {})

\* The programs on the PATH.
Programs(names) ==
    { <<<<"usr">>, DirNode>>, <<<<"usr", "bin">>, DirNode>> }
    \cup { <<<<"usr", "bin", n>>, FileNode([program |-> n])>> : n \in names }
AllPrograms == Programs({"git", "grep"})

\* What is in the workspace directory before the first run, besides the manifest.
PreStates == {"fresh", "file", "dir", "link", "dangling", "scaffold"}
Pre(pre) ==
    CASE pre = "fresh" -> {}
      [] pre = "file" -> { <<<<"repos">>, DirNode>>, <<PathA, UserFile>> }
      [] pre = "dir" -> { <<<<"repos">>, DirNode>>, <<PathA, DirNode>>,
                          <<PathA \o <<"keep">>, UserFile>> }
      [] pre = "link" -> { <<<<"repos">>, DirNode>>,
                           <<PathA, LinkNode(AbsTarget(Home \o <<"store">>))>> }
      [] pre = "dangling" -> { <<<<"repos">>, DirNode>>,
                               <<PathA, LinkNode(AbsTarget(Home \o <<"gone">>))>> }
      [] pre = "scaffold" ->
            { <<<<"plans">>, DirNode>>, <<<<"plans", "design.md">>, UserFile>>,
              <<<<"CLAUDE.md">>, UserFile>>,
              <<<<".claude">>, DirNode>>, <<<<".claude", "agents">>, DirNode>>,
              <<<<".claude", "skills">>, DirNode>>,
              <<<<".claude", "agents", "local.md">>, FileNode([agent |-> "local"])>>,
              <<<<".claude", "skills", "tool">>, DirNode>>,
              <<<<".claude", "skills", "tool", "SKILL.md">>, FileNode([skill |-> "tool"])>>,
              <<<<".claude", "agents", "core">>, LinkNode(AbsTarget(Home \o <<"store">>))>>,
              <<<<".claude", "skills", "core">>, LinkNode(AbsTarget(Home \o <<"store">>))>>,
              <<<<".claude", "settings.local.json">>, UserFile>> }

\* The workspace directory: absent ("none"), without a manifest ("bare"), or
\* with the manifest `config`.
Workspace(ws, state, config, pre) ==
    IF state = "none" THEN {}
    ELSE Under(Cwd \o ws,
               {<<Root, DirNode>>} \cup Pre(pre)
               \cup (IF state = "bare" THEN {}
                     ELSE {<<<<"workspace.toml">>, FileNode(config)>>}))

SetupEnvs ==
    { Tree(Machine(src, pc) \cup AllPrograms \cup Workspace(ws, "full", config, pre)) :
        src \in BOOLEAN, pc \in {"none", "both"}, ws \in WsArgs,
        config \in Configs, pre \in PreStates }
    \cup { Tree(Machine(TRUE, "agents") \cup AllPrograms
                \cup Workspace(ws, state, [repos |-> <<>>], "fresh")) :
             ws \in WsArgs, state \in {"none", "bare", "full"} }
    \cup { Tree(Machine(TRUE, "both") \cup Programs({"grep"})
                \cup Workspace(ws, "full", config, "fresh")) :
             ws \in WsArgs, config \in Configs }

NoRun == [cmd |-> "none"]
\* Setup and export ask no repository anything.
NoGit == <<>>

Init ==
    /\ fs \in SetupEnvs
    /\ net \in {{RemoteA}, {RemoteB}}
    /\ git = NoGit
    /\ trace = <<>>
    /\ last = NoRun
    /\ out = <<>>
    /\ exit = 0
    /\ raised = ""
    /\ snaps = <<>>

Setup(workspace) ==
    \E r \in {CmdSetup(fs, workspace, net)} :
        /\ fs' = r.fs
        /\ out' = r.out
        /\ exit' = r.exit
        /\ raised' = r.raised
        /\ snaps' = r.snaps
        /\ last' = [cmd |-> "setup", workspace |-> workspace]
        /\ trace' = <<>>
        /\ UNCHANGED <<net, git>>

Next ==
    \/ \E workspace \in WsArgs : Setup(workspace)

\* Setup, run any number of times on either workspace.
Spec == Init /\ [][Next]_vars

(***************************************************************************)
(* Setup and export together, on fewer manifests.                          *)
(***************************************************************************)
DestArg == <<"~", "out", "shared">>

PackageA == [path |-> PathA, remote |-> RemoteA]
PackageEntries ==
    { PackageA,
      [path |-> PathB, source |-> SourceB],
      [path |-> PathB, remote |-> RemoteB, source |-> <<>>] }

PackageConfigs ==
    {[name |-> <<"Demo">>]} \cup {[repos |-> m] : m \in SeqsUpTo(PackageEntries, MaxRepos)}

\* A symbolic link inside an item of the workspace's .claude/skills.
InnerLink ==
    { <<<<".claude", "skills", "tool", "ref.md">>,
        LinkNode(AbsTarget(Cwd \o <<"CLAUDE.md">>))>> }

\* What an earlier export of the workspace left at the destination, when the
\* workspace had plans/old.md.
PriorExport(ws) ==
    Under(Home \o <<"out">>,
          { <<Root, DirNode>>, <<<<"shared">>, DirNode>>, <<<<"shared">> \o ws, DirNode>>,
            <<<<"shared">> \o ws \o <<"plans">>, DirNode>>,
            <<<<"shared">> \o ws \o <<"plans", "old.md">>, UserFile>> })

PackageEnvs ==
    { Tree(Machine(TRUE, pc) \cup AllPrograms \cup Workspace(ws, "full", config, pre)) :
        pc \in {"none", "both"}, ws \in WsArgs,
        config \in PackageConfigs, pre \in {"fresh", "scaffold"} }
    \cup { Tree(Machine(TRUE, "both") \cup AllPrograms
                \cup Workspace(ws, "full", config, "scaffold")
                \cup Under(Cwd \o ws, InnerLink)) :
             ws \in WsArgs, config \in {[repos |-> <<>>], [repos |-> <<PackageA>>]} }
    \cup { Tree(Machine(TRUE, "both") \cup AllPrograms
                \cup Workspace(TopWs, "full", [repos |-> <<PackageA>>], pre)
                \cup PriorExport(TopWs)) :
             pre \in {"fresh", "scaffold"} }
    \cup { Tree(Machine(TRUE, "agents") \cup AllPrograms
                \cup Workspace(ws, state, [repos |-> <<>>], "fresh")) :
             ws \in WsArgs, state \in {"none", "bare"} }

InitPackage ==
    /\ fs \in PackageEnvs
    /\ net = {RemoteA}
    /\ git = NoGit
    /\ trace = <<>>
    /\ last = NoRun
    /\ out = <<>>
    /\ exit = 0
    /\ raised = ""
    /\ snaps = <<>>

Export(workspace, destination) ==
    \E r \in {CmdExport(fs, workspace, destination)} :
        /\ fs' = r.fs
        /\ out' = r.out
        /\ exit' = r.exit
        /\ raised' = r.raised
        /\ snaps' = <<>>
        /\ last' = [cmd |-> "export", workspace |-> workspace, destination |-> destination]
        /\ trace' = <<>>
        /\ UNCHANGED <<net, git>>

NextPackage ==
    \/ \E workspace \in WsArgs : Setup(workspace)
    \/ \E workspace \in WsArgs : Export(workspace, DestArg)

SpecPackage == InitPackage /\ [][NextPackage]_vars

(***************************************************************************)
(* CHECK command                                                           *)
(***************************************************************************)
\* Text is a sequence of characters.  str.strip() takes the whitespace off
\* both ends, str.split("\n") cuts at every newline.
Whitespace == {" ", "\n"}
RECURSIVE LStrip(_)
LStrip(s) == IF s # <<>> /\ Head(s) \in Whitespace THEN LStrip(Tail(s)) ELSE s
RECURSIVE RStrip(_)
RStrip(s) ==
    IF s # <<>> /\ s[Len(s)] \in Whitespace THEN RStrip(SubSeq(s, 1, Len(s) - 1)) ELSE s
Strip(s) == RStrip(LStrip(s))
RECURSIVE SplitLines(_)
SplitLines(s) ==
    LET cuts == {i \in 1..Len(s) : s[i] = "\n"}
    IN  IF cuts = {} THEN <<s>>
        ELSE LET i == CHOOSE c \in cuts : \A d \in cuts : c <= d
             IN  <<SubSeq(s, 1, i - 1)>> \o SplitLines(SubSeq(s, i + 1, Len(s)))

\* sorted() on paths of one directory: by name, in the order of str.
NameOrder ==
    <<".git", ".hidden", "a", "b", "bare", "c", "demo", "docs", "h", "notes.txt",
      "other", "plain", "r", "repos", "solo">>
Rank(name) == CHOOSE i \in 1..Len(NameOrder) : NameOrder[i] = name
RECURSIVE Sorted(_)
Sorted(paths) ==
    IF paths = {} THEN <<>>
    ELSE LET first == CHOOSE p \in paths :
                        \A q \in paths : Rank(BaseName(p)) <= Rank(BaseName(q))
         IN  <<first>> \o Sorted(paths \ {first})
\* Path.iterdir() of a directory.
IterDir(f, d) == {Resolve(f, d) \o <<BaseName(q)>> : q \in Children(f, Resolve(f, d))}

\* What `git args` prints and exits with when run in repo_path; after a fetch
\* that went well the upstream is the fetched one.
GitAnswer(f, g, repo_path, args, fetched) ==
    LET repo == g[Resolve(f, repo_path)]
    IN  IF args = "behind" /\ fetched THEN repo.behind_fetched ELSE repo[args]

\* run_git: (success, output); the exit code of git is not looked at.
run_git(f, g, repo_path, args, fetched) ==
    IF ~OnPath(f, "git")
    THEN [success |-> FALSE, output |-> <<"E">>]
    ELSE [success |-> TRUE, output |-> Strip(GitAnswer(f, g, repo_path, args, fetched).stdout)]

\* check_repo: the status snapshot, and the git calls made for it.
check_repo(f, g, repo_path, fetch) ==
    IF ~Exists(f, repo_path \o <<".git">>)
    THEN [is_git_repo |-> FALSE, uncommitted |-> <<>>, outgoing |-> <<>>,
          incoming |-> <<>>, calls |-> <<>>]
    ELSE LET Field(r) == IF r.success THEN r.output ELSE <<>>
             fetched == fetch /\ OnPath(f, "git")
                        /\ GitAnswer(f, g, repo_path, "fetch", FALSE).code = 0
         IN  [is_git_repo |-> TRUE,
              uncommitted |-> Field(run_git(f, g, repo_path, "status", FALSE)),
              outgoing |-> Field(run_git(f, g, repo_path, "ahead", fetched)),
              incoming |-> Field(run_git(f, g, repo_path, "behind", fetched)),
              calls |-> <<"status">> \o (IF fetch THEN <<"fetch">> ELSE <<>>)
                        \o <<"ahead", "behind">>]

\* has_issues that does not look at the incoming commits.
has_issuesNoIncoming(status) == status.uncommitted # <<>> \/ status.outgoing # <<>>

\* any([...]) over the three fields: a non-empty string is true.
has_issues(status) ==
    status.uncommitted # <<>> \/ status.outgoing # <<>> \/ status.incoming # <<>>

\* One detail section: nothing when the field is empty.
Section(repo, title, field) ==
    IF field # <<>>
    THEN <<[msg |-> title, repo |-> repo, lines |-> SplitLines(field)]>>
    ELSE <<>>

\* The body of the loop of check_workspace for one entry of repos/.
CheckEntry(f, g, repo, fetch) ==
    LET Nothing == [out |-> <<>>, clean |-> 0, dirty |-> 0, trace |-> <<>>]
    IN  IF ~IsDir(f, repo) THEN Nothing
        ELSE Val({ IF ~status.is_git_repo THEN Nothing
                   ELSE [out |-> (IF has_issues(status)
                                  THEN <<[msg |-> "repo", repo |-> repo]>> ELSE <<>>)
                                 \o Section(repo, "Uncommitted changes:", status.uncommitted)
                                 \o Section(repo, "Outgoing commits (not pushed):",
                                            status.outgoing)
                                 \o Section(repo, "Incoming commits (not pulled):",
                                            status.incoming),
                         clean |-> IF has_issues(status) THEN 0 ELSE 1,
                         dirty |-> IF has_issues(status) THEN 1 ELSE 0,
                         trace |-> [i \in 1..Len(status.calls) |->
                                       [ev |-> "git", repo |-> repo,
                                        args |-> status.calls[i]]]
                                   \o <<[ev |-> "status", repo |-> repo,
                                         uncommitted |-> status.uncommitted,
                                         outgoing |-> status.outgoing,
                                         incoming |-> status.incoming]>>]
                   : status \in {check_repo(f, g, repo, fetch)} })

RECURSIVE CheckEntries(_, _, _, _)
CheckEntries(f, g, repos, fetch) ==
    IF repos = <<>> THEN [out |-> <<>>, clean |-> 0, dirty |-> 0, trace |-> <<>>]
    ELSE Val({ [out |-> r.out \o s.out, clean |-> r.clean + s.clean,
                dirty |-> r.dirty + s.dirty, trace |-> r.trace \o s.trace]
               : r \in {CheckEntry(f, g, Head(repos), fetch)},
                 s \in {CheckEntries(f, g, Tail(repos), fetch)} })

\* check_workspace: what it prints and the (clean, dirty) it returns.
check_workspace(f, g, workspace_path, fetch) ==
    LET repos_path == workspace_path \o <<"repos">>
    IN  IF ~Exists(f, repos_path)
        THEN [out |-> <<>>, clean |-> 0, dirty |-> 0, trace |-> <<>>]
        ELSE Val({ [out |-> <<[msg |-> "=== Workspace", name |-> BaseName(workspace_path)]>>
                            \o r.out \o <<[msg |-> ""]>>,
                    clean |-> r.clean, dirty |-> r.dirty,
                    trace |-> r.trace \o <<[ev |-> "tally", workspace |-> workspace_path,
                                            clean |-> r.clean, dirty |-> r.dirty]>>]
                   : r \in {CheckEntries(f, g, Sorted(IterDir(f, repos_path)), fetch)} })

\* find_workspaces that does not leave the hidden directories out.
find_workspacesHidden(f, base_path) ==
    Sorted({item \in IterDir(f, base_path) :
                IsDir(f, item) /\ IsDir(f, item \o <<"repos">>)})

\* str.startswith(".")
Hidden(name) == name \in {".git", ".hidden", ".claude"}

find_workspaces(f, base_path) ==
    Sorted({item \in IterDir(f, base_path) :
                IsDir(f, item) /\ ~Hidden(BaseName(item)) /\ IsDir(f, item \o <<"repos">>)})

RECURSIVE CheckAll(_, _, _, _)
CheckAll(f, g, workspaces, fetch) ==
    IF workspaces = <<>> THEN [out |-> <<>>, clean |-> 0, dirty |-> 0, trace |-> <<>>]
    ELSE Val({ [out |-> r.out \o s.out, clean |-> r.clean + s.clean,
                dirty |-> r.dirty + s.dirty, trace |-> r.trace \o s.trace]
               : r \in {check_workspace(f, g, Head(workspaces), fetch)},
                 s \in {CheckAll(f, g, Tail(workspaces), fetch)} })

\* cmd_check; workspace is <<>> when the argument is not given.
cmd_check(f, g, workspace, fetch) ==
    LET cwd == Resolve(f, Cwd)
        in_workspace == IsDir(f, cwd \o <<"repos">>)
        banner == <<[msg |-> "Checking workspaces for git changes..."]>>
                  \o (IF fetch THEN <<[msg |-> "(fetching from remotes)"]>> ELSE <<>>)
                  \o <<[msg |-> ""]>>
        Exit(code, line) ==
            [out |-> banner \o <<line>>, exit |-> code, raised |-> "", trace |-> <<>>]
        Totals(r) ==
            [out |-> banner \o r.out
                     \o <<[msg |-> "totals", clean |-> r.clean, dirty |-> r.dirty]>>,
             exit |-> 0, raised |-> "", trace |-> r.trace]
    IN  IF workspace # <<>>
        THEN LET ws_path == cwd \o workspace
             IN  IF ~Exists(f, ws_path)
                 THEN Exit(1, [msg |-> "Workspace not found", workspace |-> workspace])
                 ELSE IF ~IsDir(f, ws_path \o <<"repos">>)
                 THEN Exit(1, [msg |-> "Not a workspace (no repos/ folder)",
                               workspace |-> workspace])
                 ELSE Val({ Totals(r) : r \in {check_workspace(f, g, ws_path, fetch)} })
        ELSE IF in_workspace
        THEN Val({ Totals(r) : r \in {check_workspace(f, g, cwd, fetch)} })
        ELSE Val({ IF workspaces = <<>>
                   THEN Exit(0, [msg |-> "No workspaces found"])
                   ELSE Val({ Totals(r) : r \in {CheckAll(f, g, workspaces, fetch)} })
                   : workspaces \in {find_workspaces(f, cwd)} })

(***************************************************************************)
(* Gitcheck, on directories of repositories in every state git reports.    *)
(***************************************************************************)
Answer(code, stdout) == [code |-> code, stdout |-> stdout]
Quiet == Answer(0, <<>>)
Fails == Answer(128, <<>>)
\* A repository answers: status --porcelain, fetch --quiet, log @{u}..,
\* log ..@{u}, and log ..@{u} once a fetch has gone well.
RepoAnswers(status, fetch, ahead, behind, behind_fetched) ==
    [status |-> status, fetch |-> fetch, ahead |-> ahead, behind |-> behind,
     behind_fetched |-> behind_fetched]
InSync == RepoAnswers(Quiet, Quiet, Quiet, Quiet, Quiet)
Uncommitted ==
    RepoAnswers(Answer(0, <<" ", "M", " ", "f", "\n", "?", "?", " ", "g", "\n">>),
                Quiet, Quiet, Quiet, Quiet)
Unpushed == RepoAnswers(Quiet, Quiet, Answer(0, <<"1", " ", "m", "\n">>), Quiet, Quiet)
Unpulled ==
    RepoAnswers(Quiet, Quiet, Quiet, Answer(0, <<"2", "\n">>),
                Answer(0, <<"3", "\n", "2", "\n">>))
UnpulledOnceFetched ==
    RepoAnswers(Quiet, Quiet, Quiet, Quiet, Answer(0, <<"3", "\n">>))
\* No upstream is configured: the two logs and the fetch exit non-zero.
NoUpstream == RepoAnswers(Answer(0, <<"\n">>), Fails, Fails, Fails, Fails)
\* The history is damaged: log prints the commits it reaches, then dies.
Damaged ==
    RepoAnswers(Fails, Fails, Answer(128, <<"1", " ", "m", "\n">>), Fails, Fails)
AllChanged ==
    RepoAnswers(Answer(0, <<" ", "M", " ", "f", "\n">>), Quiet,
                Answer(0, <<"1", "\n">>), Answer(0, <<"2", "\n">>), Answer(0, <<"2", "\n">>))
Profiles ==
    {InSync, Uncommitted, Unpushed, Unpulled, UnpulledOnceFetched, NoUpstream, Damaged,
     AllChanged}

RepoDir(path) == { <<path, DirNode>>, <<path \o <<".git">>, DirNode>> }
DemoRepoA == Cwd \o <<"demo", "repos", "a">>
StoreRepoB == Home \o <<"store", "b">>
OtherRepoC == Cwd \o <<"other", "repos", "c">>
HiddenRepoH == Cwd \o <<".hidden", "repos", "h">>
CwdRepoR == Cwd \o <<"repos", "r">>

\* The directories gitcheck runs in: always a hidden workspace, a directory
\* that is no workspace, a file, and a directory whose repos is a file.
CheckMachine(kind) ==
    { <<Cwd, DirNode>>, <<Home, DirNode>>, <<Home \o <<"store">>, DirNode>>,
      <<Cwd \o <<"docs">>, DirNode>>, <<Cwd \o <<"solo">>, UserFile>>,
      <<Cwd \o <<"bare">>, DirNode>>, <<Cwd \o <<"bare", "repos">>, UserFile>>,
      <<Cwd \o <<".hidden">>, DirNode>>, <<Cwd \o <<".hidden", "repos">>, DirNode>> }
    \cup RepoDir(HiddenRepoH)
    \cup (IF kind \in {"one", "many", "inside"}
          THEN { <<Cwd \o <<"demo">>, DirNode>>, <<Cwd \o <<"demo", "repos">>, DirNode>>,
                 <<Cwd \o <<"demo", "repos", "b">>, LinkNode(AbsTarget(StoreRepoB))>>,
                 <<Cwd \o <<"demo", "repos", "notes.txt">>, UserFile>>,
                 <<Cwd \o <<"demo", "repos", "plain">>, DirNode>> }
               \cup RepoDir(DemoRepoA) \cup RepoDir(StoreRepoB)
          ELSE {})
    \cup (IF kind \in {"many", "inside"}
          THEN { <<Cwd \o <<"other">>, DirNode>>, <<Cwd \o <<"other", "repos">>, DirNode>> }
               \cup RepoDir(OtherRepoC)
          ELSE {})
    \cup (IF kind = "inside"
          THEN { <<Cwd \o <<"repos">>, DirNode>> } \cup RepoDir(CwdRepoR)
          ELSE {})
CheckKinds == {"none", "one", "many", "inside"}
CheckEnvs ==
    { Tree(CheckMachine(kind) \cup AllPrograms) : kind \in CheckKinds }
    \cup { Tree(CheckMachine("many") \cup Programs({"grep"})) }
GitStates ==
    { (DemoRepoA :> a) @@ (StoreRepoB :> b) @@ (OtherRepoC :> c)
      @@ (HiddenRepoH :> Uncommitted) @@ (CwdRepoR :> InSync) :
        a \in Profiles, b \in Profiles, c \in {InSync, Unpushed} }

NoArg == <<>>
CheckArgs ==
    {NoArg, <<"demo">>, <<"other">>, <<"nope">>, <<"docs">>, <<"solo">>, <<"bare">>,
     <<".hidden">>}

InitCheck ==
    /\ fs \in CheckEnvs
    /\ git \in GitStates
    /\ net = {}
    /\ last = NoRun
    /\ out = <<>>
    /\ exit = 0
    /\ raised = ""
    /\ snaps = <<>>
    /\ trace = <<>>

Check(workspace, fetch) ==
    \E r \in {cmd_check(fs, git, workspace, fetch)} :
        /\ out' = r.out
        /\ exit' = r.exit
        /\ raised' = r.raised
        /\ trace' = r.trace
        /\ snaps' = <<>>
        /\ last' = [cmd |-> "gitcheck", workspace |-> workspace, fetch |-> fetch]
        /\ UNCHANGED <<fs, net, git>>

NextCheck ==
    \/ \E workspace \in CheckArgs, fetch \in BOOLEAN : Check(workspace, fetch)

SpecCheck == InitCheck /\ [][NextCheck]_vars

(***************************************************************************)
(* LINK command                                                            *)
(***************************************************************************)
\* A line of a note is a sequence of words; the word "workspace: " is the tag
\* and " " is whitespace.
Tag == "workspace: "
\* line.startswith("workspace: "), and grep's "^workspace: "
StartsWithTag(line) == line # <<>> /\ Head(line) = Tag
\* line.split("workspace: ")[1]: what stands between the first tag and the next.
RECURSIVE UpToTag(_)
UpToTag(words) ==
    IF words = <<>> \/ Head(words) = Tag THEN <<>>
    ELSE <<Head(words)>> \o UpToTag(Tail(words))
RECURSIVE StripWords(_)
StripWords(words) ==
    IF words # <<>> /\ Head(words) = " " THEN StripWords(Tail(words))
    ELSE IF words # <<>> /\ words[Len(words)] = " "
    THEN StripWords(SubSeq(words, 1, Len(words) - 1))
    ELSE words
\* The workspace a note names: that of its first tagged line, "" when the
\* note has none or the name is empty.  (A name is one word.)
WorkspaceOf(lines) ==
    LET tagged == SelectSeq(lines, StartsWithTag)
        name == IF tagged = <<>> THEN <<>> ELSE StripWords(UpToTag(Tail(tagged[1])))
    IN  IF name = <<>> THEN "" ELSE name[1]
\* f"{workspace}.md"
MdName(workspace) ==
    CASE workspace = "demo" -> "demo.md"
      [] workspace = "other" -> "other.md"
      [] workspace = "gone" -> "gone.md"

Vault == Cwd \o <<"..", "Notes", "notes">>
\* The vault, resolved.
NotesDir == <<"Notes", "notes">>
workspaces_dir(f) == Resolve(f, Parent(Cwd \o <<"workspace.py">>))
aibrief_dir == Home \o <<"Dropbox", "Apps", "work-journal-reviewer">>

\* `grep -rl "^workspace: " vault`: the files below the vault, symbolic links
\* left aside, with a line that starts with the tag.
GrepNotes(f) ==
    {p \in Subtree(f, Resolve(f, Vault)) :
        /\ f[p].kind = "file"
        /\ "lines" \in DOMAIN f[p].data
        /\ \E i \in 1..Len(f[p].data.lines) : StartsWithTag(f[p].data.lines[i])}

\* The filesystem a canonical path is on: that of the nearest mount point above it.
RECURSIVE Device(_, _)
Device(f, p) ==
    IF p = Root THEN 1
    ELSE IF p \in DOMAIN f /\ "dev" \in DOMAIN f[p] THEN f[p].dev
    ELSE Device(f, Parent(p))

\* Path.unlink()
Unlink(f, p) ==
    IF ~LExists(f, p) THEN Raise(f, "FileNotFoundError")
    ELSE IF f[LPath(f, p)].kind = "dir" THEN Raise(f, "IsADirectoryError")
    ELSE Ok([q \in DOMAIN f \ {LPath(f, p)} |-> f[q]])

\* Path.hardlink_to(target): a second name for the file target names.
HardlinkTo(f, p, target) ==
    IF ~Exists(f, target) \/ ~IsDir(f, Parent(p)) THEN Raise(f, "FileNotFoundError")
    ELSE IF LExists(f, p) THEN Raise(f, "FileExistsError")
    ELSE IF f[Resolve(f, target)].kind # "file" THEN Raise(f, "PermissionError")
    ELSE IF Device(f, Resolve(f, Parent(p))) # Device(f, Resolve(f, target))
    THEN Raise(f, "OSError")
    ELSE Ok(Put(f, LPath(f, p), f[Resolve(f, target)]))

\* LinkJournal that links to the note as grep names it, not resolved.
LinkJournalUnresolved(f, note, workspace) ==
    LET workspace_dir == workspaces_dir(f) \o <<workspace>>
        link_path == workspace_dir \o <<"journal.md">>
    IN  IF ~IsDir(f, workspace_dir)
        THEN Say(f, [msg |-> "no workspace folder", workspace |-> workspace, note |-> note])
        ELSE IF IsSymlink(f, link_path)
        THEN Say(f, [msg |-> "already linked", workspace |-> workspace, note |-> note])
        ELSE IF Exists(f, link_path)
        THEN Say(f, [msg |-> "journal.md exists but is not a symlink",
                     workspace |-> workspace, note |-> note])
        ELSE Bind(SymlinkTo(f, link_path,
                            RelTarget(<<"..", "Notes", "notes">>
                                      \o SubSeq(note, Len(NotesDir) + 1, Len(note)))),
                  LAMBDA g : Say(g, [msg |-> "linked", workspace |-> workspace,
                                     note |-> note]))

\* The journal link of one note.
LinkJournal(f, note, workspace) ==
    LET workspace_dir == workspaces_dir(f) \o <<workspace>>
        link_path == workspace_dir \o <<"journal.md">>
    IN  IF ~IsDir(f, workspace_dir)
        THEN Say(f, [msg |-> "no workspace folder", workspace |-> workspace, note |-> note])
        ELSE IF IsSymlink(f, link_path)
        THEN Say(f, [msg |-> "already linked", workspace |-> workspace, note |-> note])
        ELSE IF Exists(f, link_path)
        THEN Say(f, [msg |-> "journal.md exists but is not a symlink",
                     workspace |-> workspace, note |-> note])
        ELSE Bind(SymlinkTo(f, link_path, AbsTarget(Resolve(f, note))),
                  LAMBDA g : Say(g, [msg |-> "linked", workspace |-> workspace,
                                     note |-> note]))

\* The hard link of one note in the brief directory; OSError is passed over.
LinkBrief(f, note, workspace) ==
    LET aibrief_link == aibrief_dir \o <<MdName(workspace)>>
        Hard(g) ==
            Val({ IF h.err = "" THEN Then(h, Say(h.fs, [msg |-> "aibrief hard linked",
                                                        workspace |-> workspace]))
                  ELSE Ok(g)
                  : h \in {HardlinkTo(g, aibrief_link, Resolve(g, note))} })
    IN  IF ~IsDir(f, aibrief_dir) THEN Ok(f)
        ELSE IF Exists(f, aibrief_link)
        THEN Bind(Unlink(f, aibrief_link), Hard)
        ELSE Hard(f)

\* The body of the loop over the notes.
LinkNote(f, note) ==
    LET workspace == WorkspaceOf(f[Resolve(f, note)].data.lines)
    IN  IF workspace = "" THEN Ok(f)
        ELSE Bind(LinkJournal(f, note, workspace),
                  LAMBDA g : LinkBrief(g, note, workspace))

RECURSIVE LinkNotes(_, _)
LinkNotes(f, notes) ==
    IF notes = <<>> THEN Ok(f)
    ELSE Val({ IF r.err # "" THEN r ELSE Then(r, LinkNotes(r.fs, Tail(notes)))
               : r \in {LinkNote(f, Head(notes))} })

\* cmd_link; notes is what grep lists, in the order it lists it.
cmd_link(f, notes) ==
    LET Fatal(line) == [fs |-> f, out |-> <<line>>, exit |-> 1, raised |-> ""]
        Run(r) == [fs |-> r.fs, out |-> r.out,
                   exit |-> IF r.err = "" THEN 0 ELSE 1, raised |-> r.err]
    IN  IF ~Exists(f, Vault)
        THEN Fatal([msg |-> "Vault not found"])
        ELSE Val({ IF a.err # "" THEN Run(a)
                   ELSE IF ~OnPath(a.fs, "grep")
                   THEN [fs |-> a.fs, out |-> <<[msg |-> "Error searching vault"]>>,
                         exit |-> 1, raised |-> ""]
                   ELSE Val({ Run(Then(a, r)) : r \in {LinkNotes(a.fs, notes)} })
                   : a \in {IF Exists(f, Home \o <<"Dropbox", "Apps">>)
                            THEN MkdirP(f, aibrief_dir) ELSE Ok(f)} })

(***************************************************************************)
(* Link, on vaults of one or two notes and a workspace in every state of    *)
(* its journal.                                                            *)
(***************************************************************************)
TagLine(name) == <<Tag, name>>
Note(ino, lines) == FileNode([ino |-> ino, lines |-> lines])
NoteA == NotesDir \o <<"a.md">>
NoteB == NotesDir \o <<"sub", "b.md">>
OldNote == NotesDir \o <<"old.md">>
\* What a.md and sub/b.md hold.
BodiesA == { <<<<"---">>, <<Tag, " ", "demo", " ">>, <<"---">>>> }
BodiesB ==
    { <<TagLine("demo")>>,
      <<TagLine("other")>>,
      <<TagLine("gone")>>,
      <<<<"title">>, TagLine("other"), TagLine("demo")>>,
      <<<<Tag, " ">>, TagLine("demo")>>,
      <<<<" ", Tag, "demo">>>> }
VaultStates ==
    { {<<NoteA, Note(11, a)>>} : a \in BodiesA }
    \cup { {<<NoteB, Note(12, b)>>} : b \in BodiesB }
    \cup { {<<NoteA, Note(11, a)>>, <<NoteB, Note(12, b)>>} : a \in BodiesA, b \in BodiesB }
JournalStates == {"none", "file", "linked", "dangling", "elsewhere", "nodir"}
Journal(state) ==
    LET demo == Cwd \o <<"demo">>
        journal == demo \o <<"journal.md">>
    IN  CASE state = "nodir" -> {}
          [] state = "none" -> { <<demo, DirNode>> }
          [] state = "file" -> { <<demo, DirNode>>, <<journal, UserFile>> }
          [] state = "linked" -> { <<demo, DirNode>>, <<journal, LinkNode(AbsTarget(NoteA))>> }
          [] state = "dangling" ->
                { <<demo, DirNode>>, <<journal, LinkNode(AbsTarget(OldNote))>> }
          [] state = "elsewhere" ->
                { <<demo, DirNode>>,
                  <<journal, LinkNode(AbsTarget(Cwd \o <<"workspace.py">>))>> }
\* The brief directory: no Dropbox/Apps, Apps alone, the directory with the
\* hard link of an earlier run, the directory on another filesystem (empty, or
\* with a file of its own), or the directory with a symbolic link to a note
\* that is gone.
BriefStates == {"noapps", "apps", "brief", "xdev", "xdevold", "stale"}
Brief(state) ==
    LET dropbox == Home \o <<"Dropbox">>
        apps == dropbox \o <<"Apps">>
    IN  CASE state = "noapps" -> {}
          [] state = "apps" -> { <<dropbox, DirNode>>, <<apps, DirNode>> }
          [] state = "brief" ->
                { <<dropbox, DirNode>>, <<apps, DirNode>>, <<aibrief_dir, DirNode>>,
                  <<aibrief_dir \o <<"demo.md">>, Note(10, <<TagLine("demo")>>)>> }
          [] state = "xdev" ->
                { <<dropbox, [kind |-> "dir", dev |-> 2]>>, <<apps, DirNode>>,
                  <<aibrief_dir, DirNode>> }
          [] state = "xdevold" ->
                { <<dropbox, [kind |-> "dir", dev |-> 2]>>, <<apps, DirNode>>,
                  <<aibrief_dir, DirNode>>,
                  <<aibrief_dir \o <<"demo.md">>, Note(10, <<TagLine("demo")>>)>> }
          [] state = "stale" ->
                { <<dropbox, DirNode>>, <<apps, DirNode>>, <<aibrief_dir, DirNode>>,
                  <<aibrief_dir \o <<"demo.md">>, LinkNode(AbsTarget(OldNote))>> }
LinkMachine ==
    { <<Cwd, DirNode>>, <<Home, DirNode>>, <<<<"Notes">>, DirNode>>,
      <<Cwd \o <<"workspace.py">>, FileNode([script |-> "workspace.py"])>>,
      <<Cwd \o <<"other">>, DirNode>> }
VaultDirs == { <<NotesDir, DirNode>>, <<NotesDir \o <<"sub">>, DirNode>> }
LinkEnvs ==
    { Tree(LinkMachine \cup AllPrograms \cup VaultDirs \cup vault \cup Journal(j)
           \cup Brief(b)) :
        vault \in VaultStates, j \in JournalStates, b \in BriefStates }
    \cup { Tree(LinkMachine \cup AllPrograms \cup Journal("none")),
           Tree(LinkMachine \cup Programs({"git"}) \cup VaultDirs \cup Journal("none")
                \cup {<<NoteA, Note(11, <<TagLine("demo")>>)>>}) }

\* The orders grep can list a set of files in.
RECURSIVE Orders(_)
Orders(files) ==
    IF files = {} THEN {<<>>}
    ELSE UNION { {<<p>> \o rest : rest \in Orders(files \ {p})} : p \in files }

InitLink ==
    /\ fs \in LinkEnvs
    /\ net = {}
    /\ git = NoGit
    /\ last = NoRun
    /\ out = <<>>
    /\ exit = 0
    /\ raised = ""
    /\ snaps = <<>>
    /\ trace = <<>>

Link(notes) ==
    \E r \in {cmd_link(fs, notes)} :
        /\ fs' = r.fs
        /\ out' = r.out
        /\ exit' = r.exit
        /\ raised' = r.raised
        /\ snaps' = <<>>
        /\ trace' = <<>>
        /\ last' = [cmd |-> "link", notes |-> notes]
        /\ UNCHANGED <<net, git>>

NextLink ==
    \/ \E notes \in Orders(GrepNotes(fs)) : Link(notes)

SpecLink == InitLink /\ [][NextLink]_vars

(***************************************************************************)
(* Claims about setup.                                                     *)
(***************************************************************************)
WsPath(workspace) == Cwd \o workspace
\* The manifest of the workspace, as the filesystem f holds it.
ConfigOf(f, workspace) == f[Resolve(f, WsPath(workspace) \o <<"workspace.toml">>)].data

\* The paths setup must leave alone when they are there before it runs.
RepoTargets(f, workspace) ==
    IF Exists(f, WsPath(workspace) \o <<"workspace.toml">>)
       /\ "repos" \in DOMAIN ConfigOf(f, workspace)
    THEN {WsPath(workspace) \o ConfigOf(f, workspace).repos[i].path :
            i \in DOMAIN ConfigOf(f, workspace).repos}
    ELSE {}
Scaffolding(workspace) ==
    {WsPath(workspace) \o p :
        p \in {<<"CLAUDE.md">>, <<"plans">>, <<".claude", "agents", "core">>,
               <<".claude", "skills", "core">>, <<".claude", "settings.local.json">>}}
\* The node at p, and all below it, is in g exactly as it is in f.
Untouched(f, g, p) ==
    /\ Subtree(g, LPath(f, p)) = Subtree(f, LPath(f, p))
    /\ \A q \in Subtree(f, LPath(f, p)) : g[q] = f[q]

\* A second run of setup on the workspace the last run set up, which ended normally.
SecondRun == last.cmd = "setup" /\ exit = 0 /\ last' = last
NoOverwriteStep ==
    last'.cmd = "setup" =>
        \A p \in RepoTargets(fs, last'.workspace) \cup Scaffolding(last'.workspace) :
            LExists(fs, p) => Untouched(fs, fs', p)

\* C1: setup is idempotent and never overwrites.  A second run of setup, with
\* nothing changed in between, completes normally and leaves the filesystem as the
\* first run left it; and no run changes a repository target path, CLAUDE.md,
\* plans/, the core links or settings.local.json that are there before it.
C1_SetupIdempotent ==
    [][(SecondRun => (fs' = fs /\ exit' = 0)) /\ NoOverwriteStep]_vars

\* The second half of C1 alone: no run of setup changes what is already there.
C1_NeverOverwrites == [][NoOverwriteStep]_vars
\* The first half of C1 for a workspace in the current directory.
C1_TopLevelIdempotent ==
    [][(SecondRun /\ Len(last.workspace) = 1) => (fs' = fs /\ exit' = 0)]_vars

\* The last run was setup and it came to its repository loop.
LoopReached == last.cmd = "setup" /\ snaps # <<>>
LoopRepos == ConfigOf(fs, last.workspace).repos
\* What the loop printed, one line per entry, when the run ended normally.
LoopOut == SubSeq(out, Len(out) - Len(LoopRepos), Len(out) - 1)
Without(q, i) == SubSeq(q, 1, i - 1) \o SubSeq(q, i + 1, Len(q))
Has(repo, k) == k \in DOMAIN repo /\ repo[k] # <<>>
TargetThere(f, workspace, repo) ==
    LExists(f, WsPath(workspace) \o repo.path)

\* Entry `repo` fails in f: nothing to clone or link, a source that is not
\* there, or a clone that fails.
NothingToDo(repo) == ~Has(repo, "remote") /\ ~Has(repo, "source")
SourceMissing(f, repo) == Has(repo, "source") /\ ~Exists(f, Home \o Tail(repo.source))
CloneRuns(f, workspace, repo) ==
    ~Has(repo, "source") /\ Has(repo, "remote") /\ ~TargetThere(f, workspace, repo)
\* The clone fails: git is not there to run, or it runs and exits non-zero.
CloneFails(f, workspace, repo) ==
    CloneRuns(f, workspace, repo) /\ (~OnPath(f, "git") \/ repo.remote \notin net)
CloneExitsNonZero(f, workspace, repo) ==
    CloneRuns(f, workspace, repo) /\ OnPath(f, "git") /\ repo.remote \notin net
EntryFails(f, workspace, repo) ==
    NothingToDo(repo) \/ SourceMissing(f, repo) \/ CloneFails(f, workspace, repo)
\* The line that reports the failed entry.
Reports(line, f, workspace, repo) ==
    IF TargetThere(f, workspace, repo)
    THEN line = [msg |-> "already exists", path |-> repo.path]
    ELSE IF SourceMissing(f, repo)
    THEN line = [msg |-> "source doesn't exist", path |-> repo.path, source |-> repo.source]
    ELSE IF CloneFails(f, workspace, repo)
    THEN line = [msg |-> "Failed to clone", remote |-> repo.remote]
    ELSE line = [msg |-> "no remote or source, skipping", path |-> repo.path]
\* The run did not stop at entry i, which failed: it is reported, nothing is
\* raised, and the rest is as in the same run without entry i.
GoesOn(i) ==
    /\ raised = "" /\ exit = 0
    /\ Len(snaps) = Len(LoopRepos) + 1
    /\ Reports(LoopOut[i], snaps[i], last.workspace, LoopRepos[i])
    /\ \E w \in {SetupRepos(snaps[1], WsPath(last.workspace), Without(LoopRepos, i), net)} :
            /\ w.err = ""
            /\ w.fs = fs
            /\ w.out = Without(LoopOut, i)

\* C2: in setup's repository loop a failing entry never stops the run.  Whenever
\* the loop comes to an entry i that has neither remote nor source, names a
\* source that does not exist, or names a remote whose clone fails, then setup
\* reports that entry, raises nothing, exits with code 0, and the filesystem and
\* the other entries' reports are those of the same run without entry i.
C2_FailedEntryDoesNotStop ==
    LoopReached =>
        \A i \in 1..Len(LoopRepos) :
            (i <= Len(snaps) /\ EntryFails(snaps[i], last.workspace, LoopRepos[i]))
                => GoesOn(i)
\* C2 holds of the failures the loop looks for: no remote and no source, a
\* source that is not there, a git that runs and exits non-zero.
C2_ReportedFailuresDoNotStop ==
    (LoopReached /\ OnPath(snaps[1], "git")) =>
        \A i \in 1..Len(LoopRepos) :
            (NothingToDo(LoopRepos[i]) \/ SourceMissing(snaps[i], LoopRepos[i])
             \/ CloneExitsNonZero(snaps[i], last.workspace, LoopRepos[i]))
                => GoesOn(i)
\* A clone that could not start ended the run with an entry still to come.
C2_StoppedByClone ==
    /\ LoopReached /\ raised = "FileNotFoundError"
    /\ Len(snaps) < Len(LoopRepos)

\* What one pass of the loop must do, by the order the claim gives.
IsClone(f, target, remote) ==
    /\ IsDir(f, target) /\ ~IsSymlink(f, target)
    /\ IsDir(f, target \o <<".git">>)
    /\ Exists(f, target \o <<".git", "config">>)
    /\ f[Resolve(f, target \o <<".git", "config">>)].data = [origin |-> remote]
CloneWorks(f, repo) == OnPath(f, "git") /\ repo.remote \in net
\* What the pass on `repo` is to print, "" when the claim asks for nothing.
Decided(pre, workspace, repo) ==
    IF TargetThere(pre, workspace, repo) THEN "already exists"
    ELSE IF Has(repo, "source")
    THEN IF Exists(pre, Home \o Tail(repo.source)) THEN "Linked" ELSE "source doesn't exist"
    ELSE IF Has(repo, "remote")
    THEN IF CloneWorks(pre, repo) THEN "Cloned" ELSE "Failed to clone"
    ELSE "no remote or source, skipping"
Decision(pre, post, workspace, repo) ==
    LET target == WsPath(workspace) \o repo.path
        source_path == Resolve(pre, Home \o Tail(repo.source))
        how == Decided(pre, workspace, repo)
    IN  CASE how = "Linked" ->
                post = Put(pre, LPath(pre, target), LinkNode(AbsTarget(source_path)))
          [] how = "Cloned" ->
                /\ IsClone(post, target, repo.remote)
                /\ \A q \in DOMAIN pre : q \in DOMAIN post /\ post[q] = pre[q]
                /\ DOMAIN post \ DOMAIN pre = Subtree(post, LPath(pre, target))
          [] OTHER -> post = pre
\* The passes the loop made, and the filesystem each one left.
Passes == IF raised = "" THEN 1..(Len(snaps) - 1) ELSE 1..Len(snaps)
After(i) == IF i < Len(snaps) THEN snaps[i + 1] ELSE fs

ExampleManifest ==
    <<[path |-> PathA, remote |-> RemoteA], [path |-> PathB, source |-> SourceB]>>
ExampleRun ==
    /\ LoopReached
    /\ LoopRepos = ExampleManifest
    /\ ~LExists(snaps[1], WsPath(last.workspace) \o PathA)
    /\ ~LExists(snaps[1], WsPath(last.workspace) \o PathB)
    /\ RemoteA \in net /\ OnPath(snaps[1], "git")
    /\ Exists(snaps[1], Home \o <<"local", "b">>)

\* C8: setup's per-entry decision.  In every pass of the loop: a target path
\* that is already there is left alone; otherwise an entry with a (non-empty)
\* source gets a symlink to the expanded, resolved source path if that path
\* exists and nothing if not, and no clone either way; otherwise an entry with
\* a (non-empty) remote gets a clone attempt, which makes the clone or nothing;
\* otherwise nothing is made.  A run that ends normally prints the decision
\* taken for each entry.  And for the manifest [repos/a from a remote, repos/b
\* from a source] on a fresh workspace, with the remote working and the source
\* there, after setup repos/a is a clone, repos/b a symlink to the source, and
\* CLAUDE.md and plans/ exist.
C8_PerEntryDecision ==
    LoopReached =>
        /\ \A i \in Passes : Decision(snaps[i], After(i), last.workspace, LoopRepos[i])
        /\ raised = "" =>
              /\ Len(snaps) = Len(LoopRepos) + 1
              /\ snaps[Len(snaps)] = fs
              /\ \A i \in Passes :
                    LoopOut[i].msg = Decided(snaps[i], last.workspace, LoopRepos[i])
        /\ ExampleRun =>
              /\ IsClone(fs, WsPath(last.workspace) \o PathA, RemoteA)
              /\ fs[WsPath(last.workspace) \o PathB] = LinkNode(AbsTarget(StoreB))
              /\ Exists(fs, WsPath(last.workspace) \o <<"CLAUDE.md">>)
              /\ IsDir(fs, WsPath(last.workspace) \o <<"plans">>)
\* The example run has happened.
C8_Witness == ExampleRun /\ exit = 0
\* An entry with both a source and a remote was linked, not cloned.
C8_WitnessBoth ==
    /\ LoopReached /\ raised = ""
    /\ \E i \in 1..Len(LoopRepos) :
        /\ Has(LoopRepos[i], "source") /\ Has(LoopRepos[i], "remote")
        /\ LoopOut[i].msg = "Linked"

(***************************************************************************)
(* Claims about setup and export together.                                 *)
(***************************************************************************)
Ran(l) == l.cmd \in {"setup", "export"}
WorkspaceMissing(f, workspace) == ~Exists(f, WsPath(workspace))
ManifestMissing(f, workspace) == ~Exists(f, WsPath(workspace) \o <<"workspace.toml">>)
\* The manifest is one of the file format: it has the list of repositories.
ManifestValid(f, workspace) == "repos" \in DOMAIN ConfigOf(f, workspace)

\* C3: the fatal preconditions of setup and export.  A run on a workspace
\* directory that does not exist, or that has no workspace.toml, prints an
\* error, exits with code 1 and changes nothing on the filesystem; a run on a
\* workspace that has a manifest (one with a repository list) runs to
\* completion with exit code 0.
C3_FatalPreconditions ==
    [][Ran(last') =>
          IF WorkspaceMissing(fs, last'.workspace) \/ ManifestMissing(fs, last'.workspace)
          THEN /\ exit' = 1 /\ raised' = "" /\ fs' = fs
               /\ Len(out') = 1
               /\ out'[1].msg = (IF WorkspaceMissing(fs, last'.workspace)
                                 THEN "Error: Workspace not found"
                                 ELSE "Error: workspace.toml not found")
          ELSE ManifestValid(fs, last'.workspace) => (exit' = 0 /\ raised' = "")]_vars

\* The part of C3 that holds: the two checks come first and end the run.
C3_ChecksComeFirst ==
    [][(Ran(last') /\ (WorkspaceMissing(fs, last'.workspace)
                       \/ ManifestMissing(fs, last'.workspace)))
          => (exit' = 1 /\ raised' = "" /\ fs' = fs)]_vars
\* C3 for the workspaces that are directories of the current directory, with
\* git on the PATH.
C3_TopLevelCompletes ==
    [][(Ran(last') /\ Len(last'.workspace) = 1 /\ OnPath(fs, "git")
        /\ ~WorkspaceMissing(fs, last'.workspace) /\ ~ManifestMissing(fs, last'.workspace)
        /\ ManifestValid(fs, last'.workspace))
          => (exit' = 0 /\ raised' = "")]_vars

\* The lines of the note about local sources among the lines printed.
IsSourceLine(line) == line.msg \in {"Note: local source entries", "source entry"}
SourceWarning(lines) == SelectSeq(lines, IsSourceLine)
\* The warning the manifest calls for: nothing without an entry that has a
\* (non-empty) source, else a heading and the path and source of each, in order.
HasSource(repo) == Has(repo, "source")
ExpectedWarning(config) ==
    LET repos == IF "repos" \in DOMAIN config THEN config.repos ELSE <<>>
        with == SelectSeq(repos, HasSource)
    IN  IF with = <<>> THEN <<>>
        ELSE <<[msg |-> "Note: local source entries", count |-> Len(with)]>>
             \o [i \in 1..Len(with) |->
                    [msg |-> "source entry", path |-> with[i].path, source |-> with[i].source]]
\* The filesystem f with the source fields taken out of the workspace's manifest.
StripEntry(repo) == [k \in DOMAIN repo \ {"source"} |-> repo[k]]
StripSources(f, workspace) ==
    LET toml == Resolve(f, WsPath(workspace) \o <<"workspace.toml">>)
        repos == f[toml].data.repos
    IN  [f EXCEPT ![toml] =
            FileNode([repos |-> [i \in DOMAIN repos |-> StripEntry(repos[i])]])]
\* f and g hold the same nodes, the copies of the manifest aside.
SameButManifest(f, g) ==
    /\ DOMAIN f = DOMAIN g
    /\ \A q \in DOMAIN f : BaseName(q) # "workspace.toml" => f[q] = g[q]
ExportRan(l) == l.cmd = "export"

\* An export of a workspace that has a manifest reports the sources and ends
\* as the claim has it.
ReportsSources ==
    /\ exit' = 0
    /\ SourceWarning(out') = ExpectedWarning(ConfigOf(fs, last'.workspace))
    /\ ManifestValid(fs, last'.workspace) =>
          \E alt \in {CmdExport(StripSources(fs, last'.workspace),
                                last'.workspace, last'.destination)} :
              /\ alt.exit = exit'
              /\ alt.raised = raised'
              /\ SameButManifest(alt.fs, fs')
              /\ SourceWarning(alt.out) = <<>>
ExportOfManifest ==
    /\ ExportRan(last')
    /\ ~WorkspaceMissing(fs, last'.workspace)
    /\ ~ManifestMissing(fs, last'.workspace)

\* C7: export reports local sources without failing.  Every export of a
\* workspace that has a manifest prints the warning for exactly the entries
\* that have a (non-empty) source, with the path and source of each, and no
\* warning when there is none; its exit code is 0; and the exit code and what
\* is copied are those of the same export with the source fields taken out of
\* the manifest.
C7_SourcesReported == [][ExportOfManifest => ReportsSources]_vars
\* C7 for the workspaces that are directories of the current directory.
C7_TopLevelSourcesReported ==
    [][(ExportOfManifest /\ Len(last'.workspace) = 1) => ReportsSources]_vars
\* An export ended normally on a manifest with two entries, one of them with a source.
C7_TopLevelReported ==
    /\ ExportRan(last) /\ exit = 0
    /\ ManifestValid(fs, last.workspace)
    /\ Len(ConfigOf(fs, last.workspace).repos) = 2
    /\ Len(SourceWarning(out)) = 2

(***************************************************************************)
(* Claims about gitcheck.                                                  *)
(***************************************************************************)
CheckRan == last.cmd = "gitcheck"
Events(kind) == SelectSeq(trace, LAMBDA e : e.ev = kind)
Tallies == Events("tally")
\* The directories under repos/ of the workspace that are git repositories.
GitRepos(workspace_path) ==
    {repo \in IterDir(fs, workspace_path \o <<"repos">>) :
        IsDir(fs, repo) /\ Exists(fs, repo \o <<".git">>)}
InWorkspace(repo, workspace_path) == Parent(Parent(repo)) = Resolve(fs, workspace_path)
\* The status snapshots taken of a repository.
Snapshots(repo) == SelectSeq(trace, LAMBDA e : e.ev = "status" /\ e.repo = repo)
NonEmpty(status) ==
    {k \in {"uncommitted", "outgoing", "incoming"} : status[k] # <<>>}
SectionTitle(k) ==
    CASE k = "uncommitted" -> "Uncommitted changes:"
      [] k = "outgoing" -> "Outgoing commits (not pushed):"
      [] k = "incoming" -> "Incoming commits (not pulled):"
\* The detail sections printed for a repository.
Sections(repo) ==
    {out[i].msg : i \in {j \in 1..Len(out) :
                            /\ "lines" \in DOMAIN out[j]
                            /\ out[j].repo = repo}}
RECURSIVE Sum(_, _)
Sum(events, k) == IF events = <<>> THEN 0 ELSE Head(events)[k] + Sum(Tail(events), k)

\* C4: status classification.  In every workspace gitcheck checks, each
\* directory under repos/ that is a git repository is looked at exactly once,
\* and nothing else is; the workspace's dirty count is the number of those
\* repositories with a non-empty uncommitted, outgoing or incoming result and
\* its clean count the number of the others; a detail section is printed for
\* exactly the non-empty results of each; and the totals printed are the sums
\* of the workspaces' counts.
C4_StatusClassification ==
    (CheckRan /\ exit = 0) =>
        /\ \A i \in 1..Len(Tallies) :
            LET workspace_path == Tallies[i].workspace
                repos == GitRepos(workspace_path)
                dirty == {repo \in repos : NonEmpty(Snapshots(repo)[1]) # {}}
            IN  /\ \A repo \in repos :
                    /\ Len(Snapshots(repo)) = 1
                    /\ Sections(repo)
                         = {SectionTitle(k) : k \in NonEmpty(Snapshots(repo)[1])}
                /\ \A repo \in IterDir(fs, workspace_path \o <<"repos">>) \ repos :
                    Len(Snapshots(repo)) = 0 /\ Sections(repo) = {}
                /\ Tallies[i].dirty = Cardinality(dirty)
                /\ Tallies[i].clean = Cardinality(repos \ dirty)
                /\ Tallies[i].clean + Tallies[i].dirty = Cardinality(repos)
        /\ \A e \in {trace[j] : j \in 1..Len(trace)} :
            e.ev = "status" =>
                \E i \in 1..Len(Tallies) : InWorkspace(e.repo, Tallies[i].workspace)
        /\ out[Len(out)].msg = "totals" =>
            /\ out[Len(out)].clean = Sum(Tallies, "clean")
            /\ out[Len(out)].dirty = Sum(Tallies, "dirty")
\* Two workspaces were checked: one holds a repository with only incoming
\* commits next to a clean one, a file and a directory that is no repository.
C4_Witness ==
    /\ CheckRan /\ exit = 0 /\ Len(Tallies) = 2
    /\ \E i \in 1..Len(Tallies) :
        /\ Tallies[i].clean = 1 /\ Tallies[i].dirty = 1
        /\ Cardinality(IterDir(fs, Tallies[i].workspace \o <<"repos">>)) = 4
        /\ \E repo \in GitRepos(Tallies[i].workspace) :
            NonEmpty(Snapshots(repo)[1]) = {"incoming"}

\* The workspaces gitcheck is to check, by its argument and the current directory.
Discoverable ==
    {item \in IterDir(fs, Cwd) :
        IsDir(fs, item) /\ ~Hidden(BaseName(item)) /\ IsDir(fs, item \o <<"repos">>)}
Checked == {Tallies[i].workspace : i \in 1..Len(Tallies)}
NothingChecked == trace = <<>>
Says(msg) == \E i \in 1..Len(out) : out[i].msg = msg
\* Every call of git is made in a repository of a checked workspace.
CallsWithinChecked ==
    \A j \in 1..Len(trace) :
        trace[j].ev = "git" => \E w \in Checked : InWorkspace(trace[j].repo, w)

\* C6: the targets of gitcheck and its exit code.  With a workspace argument
\* only that workspace is checked, and if it or its repos/ folder is missing the
\* exit code is 1 and no repository is checked; with no argument and a repos/
\* folder in the current directory only the current directory is checked;
\* otherwise every non-hidden subdirectory of the current directory with a
\* repos/ folder is checked, and with none of them "No workspaces found" is
\* printed; in all but the missing-workspace case the exit code is 0.
C6_TargetsAndExitCodes ==
    CheckRan =>
        /\ raised = ""
        /\ Len(Tallies) = Cardinality(Checked)
        /\ CallsWithinChecked
        /\ IF last.workspace # NoArg
           THEN IF ~Exists(fs, Cwd \o last.workspace)
                   \/ ~IsDir(fs, Cwd \o last.workspace \o <<"repos">>)
                THEN exit = 1 /\ NothingChecked /\ ~Says("totals")
                ELSE exit = 0 /\ Checked = {Cwd \o last.workspace}
           ELSE IF IsDir(fs, Cwd \o <<"repos">>)
                THEN exit = 0 /\ Checked = {Cwd}
                ELSE /\ exit = 0
                     /\ Checked = Discoverable
                     /\ Discoverable = {} <=> Says("No workspaces found")
\* Gitcheck without an argument, outside a workspace, checked the two
\* workspaces there are and not the hidden one; one repository was dirty.
C6_Witness ==
    /\ CheckRan /\ last.workspace = NoArg /\ exit = 0
    /\ Cardinality(Checked) = 2
    /\ IsDir(fs, Cwd \o <<".hidden", "repos">>)
    /\ Sum(Tallies, "dirty") > 0
\* An argument that names a directory whose repos is not a folder.
C6_WitnessNotAWorkspace ==
    CheckRan /\ exit = 1 /\ Exists(fs, Cwd \o last.workspace) /\ last.workspace # NoArg

\* The git invocation for field k of the repository failed: git could not be
\* started, or it exited non-zero.
Fetched(repo) ==
    last.fetch /\ OnPath(fs, "git") /\ git[Resolve(fs, repo)].fetch.code = 0
QueryOf(k) ==
    CASE k = "uncommitted" -> "status" [] k = "outgoing" -> "ahead"
      [] k = "incoming" -> "behind"
InvocationFails(repo, k) ==
    \/ ~OnPath(fs, "git")
    \/ GitAnswer(fs, git, repo, QueryOf(k), Fetched(repo)).code # 0
StatusFields == {"uncommitted", "outgoing", "incoming"}
StatusEvents == Events("status")

\* C10: a failed git invocation yields an empty field.  For every repository
\* checked and each of its three queries: if the invocation could not be
\* started or exited non-zero the field is empty, and if it went well the field
\* is what git printed, whatever became of the other two; every repository of
\* the workspace is still checked; and a repository whose three queries all
\* fail is counted as clean.
C10_FailureYieldsEmpty ==
    (CheckRan /\ exit = 0) =>
        /\ \A i \in 1..Len(StatusEvents) : \A k \in StatusFields :
            LET e == StatusEvents[i]
            IN  IF InvocationFails(e.repo, k)
                THEN e[k] = <<>>
                ELSE e[k] = Strip(GitAnswer(fs, git, e.repo, QueryOf(k),
                                            Fetched(e.repo)).stdout)
        /\ \A w \in Checked : \A repo \in GitRepos(w) :
            /\ Len(Snapshots(repo)) = 1
            /\ (\A k \in StatusFields : InvocationFails(repo, k))
                  => Sections(repo) = {} /\ ~\E j \in 1..Len(out) :
                                               out[j] = [msg |-> "repo", repo |-> repo]
\* C10 where git cannot be started, and where it fails without printing.
SilentFailuresOnly ==
    \A p \in DOMAIN git : \A q \in DOMAIN git[p] :
        git[p][q].code # 0 => git[p][q].stdout = <<>>
C10_SilentFailureYieldsEmpty ==
    (CheckRan /\ exit = 0 /\ (SilentFailuresOnly \/ ~OnPath(fs, "git")))
        => C10_FailureYieldsEmpty
\* A repository whose log exited non-zero after printing was reported as
\* having outgoing commits.
C10_FailedQueryReported ==
    /\ CheckRan /\ exit = 0
    /\ \E i \in 1..Len(StatusEvents) :
        /\ InvocationFails(StatusEvents[i].repo, "outgoing")
        /\ StatusEvents[i].outgoing # <<>>
        /\ "Outgoing commits (not pushed):" \in Sections(StatusEvents[i].repo)

(***************************************************************************)
(* Claims about link.                                                      *)
(***************************************************************************)
LinkRan(l) == l.cmd = "link"
NameOf(f, note) == WorkspaceOf(f[note].data.lines)
JournalOf(f, workspace) == workspaces_dir(f) \o <<workspace, "journal.md">>
\* The note names a workspace whose folder is there with nothing at journal.md.
Linkable(f, note) ==
    /\ NameOf(f, note) # ""
    /\ IsDir(f, workspaces_dir(f) \o <<NameOf(f, note)>>)
    /\ ~LExists(f, JournalOf(f, NameOf(f, note)))
Printed(lines, msg, workspace, note) ==
    \E i \in 1..Len(lines) :
        lines[i] = [msg |-> msg, workspace |-> workspace, note |-> note]
\* The workspace folder holds in g what it holds in f.
FolderUnchanged(f, g, workspace) ==
    LET folder == Resolve(f, workspaces_dir(f) \o <<workspace>>)
    IN  /\ Subtree(g, folder) = Subtree(f, folder)
        /\ \A q \in Subtree(f, folder) : g[q] = f[q]
\* Link again after a run that linked the note: already linked, nothing touched.
Relinks(note) ==
    (LinkRan(last) /\ Printed(out, "linked", NameOf(fs, note), note)) =>
        /\ Printed(out', "already linked", NameOf(fs, note), note)
        /\ FolderUnchanged(fs, fs', NameOf(fs, note))
        /\ fs'[JournalOf(fs, NameOf(fs, note))] = LinkNode(AbsTarget(note))
\* The first of the notes, in the order they are listed, to name the workspace.
FirstFor(notes, f, workspace) ==
    notes[CHOOSE i \in 1..Len(notes) :
            /\ NameOf(f, notes[i]) = workspace
            /\ \A j \in 1..(i - 1) : NameOf(f, notes[j]) # workspace]
CanSearch(f) == Exists(f, Vault) /\ OnPath(f, "grep")

\* C5 as the specification has it: every note that names a workspace whose
\* folder is there with nothing at journal.md gets <name>/journal.md as a
\* symbolic link to it; and a second run reports the workspace as already
\* linked and changes nothing in the workspace folder.
C5_EveryNoteLinked ==
    [][(LinkRan(last') /\ CanSearch(fs)) =>
          \A note \in GrepNotes(fs) :
              /\ Linkable(fs, note) =>
                    /\ IsSymlink(fs', JournalOf(fs, NameOf(fs, note)))
                    /\ fs'[JournalOf(fs, NameOf(fs, note))] = LinkNode(AbsTarget(note))
              /\ Relinks(note)]_vars

\* C5: link, then link again.  Of the notes that name a workspace whose folder
\* is there with nothing at journal.md, the first that link comes to gets
\* <name>/journal.md as a symbolic link to it; and a second run, with nothing
\* changed, reports the workspace as already linked, leaves that link as it is
\* and makes no other link in the workspace folder.
C5_LinkThenRelink ==
    [][(LinkRan(last') /\ CanSearch(fs)) =>
          \A note \in GrepNotes(fs) :
              /\ (Linkable(fs, note)
                  /\ note = FirstFor(last'.notes, fs, NameOf(fs, note))) =>
                    /\ IsSymlink(fs', JournalOf(fs, NameOf(fs, note)))
                    /\ fs'[JournalOf(fs, NameOf(fs, note))] = LinkNode(AbsTarget(note))
                    /\ Printed(out', "linked", NameOf(fs, note), note)
              /\ Relinks(note)]_vars
\* The second run has happened: sub/b.md, which only link can have linked, is
\* the journal of demo, and this run reported it as already linked.
C5_Witness ==
    /\ LinkRan(last) /\ exit = 0
    /\ IsSymlink(fs, Cwd \o <<"demo", "journal.md">>)
    /\ fs[Cwd \o <<"demo", "journal.md">>] = LinkNode(AbsTarget(NoteB))
    /\ Printed(out, "already linked", "demo", NoteB)
    /\ ~Printed(out, "linked", "demo", NoteB)
\* The first run has happened on two notes that name the same workspace.
C5_WitnessTwoNotes ==
    /\ LinkRan(last) /\ exit = 0
    /\ Printed(out, "linked", "demo", NoteB)
    /\ Printed(out, "already linked", "demo", NoteA)

\* C9: "already linked" is only said of a journal that is linked to the note.
\* Whenever link reports a note's workspace as already linked, journal.md of
\* the workspace is a symbolic link that resolves to an existing file, and
\* that file is the note.
C9_AlreadyLinkedIsLinked ==
    LinkRan(last) =>
        \A i \in 1..Len(out) :
            out[i].msg = "already linked" =>
                LET journal == JournalOf(fs, out[i].workspace)
                IN  /\ IsSymlink(fs, journal)
                    /\ Exists(fs, journal)
                    /\ fs[Resolve(fs, journal)].kind = "file"
                    /\ Resolve(fs, journal) = Resolve(fs, out[i].note)
\* What does hold: the journal is a symbolic link.
C9_AlreadyLinkedIsSymlink ==
    LinkRan(last) =>
        \A i \in 1..Len(out) :
            out[i].msg = "already linked" => IsSymlink(fs, JournalOf(fs, out[i].workspace))
\* "already linked" was said of a journal whose link is dangling.
C9_DanglingReported ==
    /\ LinkRan(last)
    /\ \E i \in 1..Len(out) :
        /\ out[i].msg = "already linked"
        /\ ~Exists(fs, JournalOf(fs, out[i].workspace))
\* "already linked" was said of a note while the journal is the other note.
C9_OtherNoteReported ==
    /\ LinkRan(last)
    /\ \E i \in 1..Len(out) :
        /\ out[i].msg = "already linked"
        /\ Exists(fs, JournalOf(fs, out[i].workspace))
        /\ Resolve(fs, JournalOf(fs, out[i].workspace)) \in GrepNotes(fs) \ {out[i].note}

\* The workspaces the notes name, and the last note link comes to for each.
TaggedNames(f, notes) == {NameOf(f, notes[i]) : i \in 1..Len(notes)} \ {""}
LastFor(notes, f, workspace) ==
    notes[CHOOSE i \in 1..Len(notes) :
            /\ NameOf(f, notes[i]) = workspace
            /\ \A j \in (i + 1)..Len(notes) : NameOf(f, notes[j]) # workspace]
BriefLink(workspace) == aibrief_dir \o <<MdName(workspace)>>
\* p is a second name of the file the note is: the same inode, the same contents.
IsHardLink(f, p, note) ==
    /\ note \in DOMAIN f
    /\ LExists(f, p)
    /\ f[LPath(f, p)].kind = "file"
    /\ f[LPath(f, p)] = f[note]
\* The journal step was taken for the note, whatever its outcome.
JournalStepTaken(lines, f, note) ==
    \E msg \in {"no workspace folder", "already linked",
                "journal.md exists but is not a symlink", "linked"} :
        Printed(lines, msg, NameOf(f, note), note)
\* Link ran with the brief directory there.
BriefRun == LinkRan(last') /\ CanSearch(fs) /\ IsDir(fs', aibrief_dir)
\* Nothing stopped the run: no exception, exit code 0, every tagged note processed.
RunNotStopped ==
    /\ raised' = "" /\ exit' = 0
    /\ \A i \in 1..Len(last'.notes) :
          NameOf(fs, last'.notes[i]) # "" => JournalStepTaken(out', fs, last'.notes[i])
\* The hard link of the workspace can be made: its place in the brief directory
\* is free or holds something exists() sees, on the filesystem of the notes.
CanHardLink(f, g, workspace) ==
    /\ ~LExists(f, BriefLink(workspace)) \/ Exists(f, BriefLink(workspace))
    /\ Device(g, Resolve(g, aibrief_dir)) = Device(g, Resolve(g, Vault))

\* C11: the hard links of the brief directory.  When the brief directory is
\* there, link is not stopped by a hard link it cannot make, and after the run
\* <brief>/<workspace>.md is, for each workspace a note names, a hard link to a
\* note of that workspace (the last one link came to), whatever was there
\* before and whatever the journal step did.
C11_BriefHardLinks ==
    [][BriefRun =>
          /\ RunNotStopped
          /\ \A w \in TaggedNames(fs, last'.notes) :
                IsHardLink(fs', BriefLink(w), LastFor(last'.notes, fs, w))]_vars
\* What holds of C11: the run is never stopped, and the hard link is there
\* wherever it can be made.
C11_HardLinkedWhereItCanBe ==
    [][BriefRun =>
          /\ RunNotStopped
          /\ \A w \in TaggedNames(fs, last'.notes) :
                CanHardLink(fs, fs', w) =>
                    IsHardLink(fs', BriefLink(w), LastFor(last'.notes, fs, w))]_vars
\* The hard link of an earlier run was replaced by one to the note.
C11_Replaced ==
    /\ LinkRan(last) /\ exit = 0
    /\ IsHardLink(fs, BriefLink("demo"), NoteB)
    /\ Printed(out, "already linked", "demo", NoteB)
\* After the run a symbolic link to a note that is gone is still where the
\* hard link should be, and the run said nothing of it.
C11_StaleLinkKept ==
    /\ LinkRan(last) /\ exit = 0
    /\ "demo" \in TaggedNames(fs, last.notes)
    /\ IsSymlink(fs, BriefLink("demo"))
\* After the run the file that was in the brief directory is gone and no hard
\* link has taken its place.
C11_OldLinkLost ==
    /\ LinkRan(last) /\ exit = 0
    /\ "demo" \in TaggedNames(fs, last.notes)
    /\ IsDir(fs, aibrief_dir)
    /\ ~LExists(fs, BriefLink("demo"))

(***************************************************************************)
(* Claims about what export copies.                                        *)
(***************************************************************************)
\* The paths below the directory base, relative to it.
Below(f, base) == {SubSeq(q, Len(base) + 1, Len(q)) : q \in Subtree(f, base) \ {base}}
\* The items of the directory src, at every depth, that are not symbolic links.
PlainItems(f, src) == {r \in Below(f, src) : f[src \o r].kind # "link"}
\* The relative path r is, or lies below, a symbolic link of the directory src.
FromLink(f, src, r) ==
    \E k \in 1..Len(r) : /\ src \o SubSeq(r, 1, k) \in DOMAIN f
                         /\ f[src \o SubSeq(r, 1, k)].kind = "link"
\* The directory dst of g holds a copy of every item of `items` of src in f.
HoldsCopies(f, src, g, dst, items) ==
    \A r \in items : dst \o r \in DOMAIN g /\ g[dst \o r] = f[src \o r]
SrcClaude(workspace, subdir) == WsPath(workspace) \o <<".claude", subdir>>
ExportedWs(f, l) == ExpandResolve(f, l.destination) \o l.workspace
ExportEnded == ExportRan(last') /\ exit' = 0 /\ raised' = ""
\* The exported plans/ is the source's plans/, item for item.
PlansReplaced ==
    LET ws_plans == WsPath(last'.workspace) \o <<"plans">>
        dest_plans == ExportedWs(fs', last') \o <<"plans">>
    IN  IsDir(fs, ws_plans) =>
            /\ IsDir(fs', dest_plans)
            /\ Below(fs', dest_plans) = Below(fs, Resolve(fs, ws_plans))
            /\ HoldsCopies(fs, Resolve(fs, ws_plans), fs', dest_plans,
                           Below(fs, Resolve(fs, ws_plans)))
\* Every item of the source that is not a symbolic link is in the copy.
PlainCopied(subdir) ==
    LET src_dir == Resolve(fs, SrcClaude(last'.workspace, subdir))
    IN  HoldsCopies(fs, src_dir, fs', ExportedWs(fs', last') \o <<".claude", subdir>>,
                    PlainItems(fs, src_dir))
\* Nothing in the copy, down to depth `depth`, comes from a symbolic link.
NoneFromLink(subdir, depth) ==
    LET src_dir == Resolve(fs, SrcClaude(last'.workspace, subdir))
    IN  \A r \in Below(fs', ExportedWs(fs', last') \o <<".claude", subdir>>) :
            Len(r) <= depth => ~FromLink(fs, src_dir, r)

\* C12: export leaves the symbolic links out.  After an export that ended
\* normally, for each of .claude/agents and .claude/skills of the workspace
\* that is a directory, the exported copy holds every item of the source that
\* is not a symbolic link and nothing that is, or lies below, a symbolic link
\* of the source, at any depth; and the exported plans/ is the source's
\* plans/ item for item, with nothing left of an earlier export.
C12_ExportExcludesLinks ==
    [][ExportEnded =>
          /\ \A subdir \in {"agents", "skills"} :
                IsDir(fs, SrcClaude(last'.workspace, subdir)) =>
                    PlainCopied(subdir) /\ NoneFromLink(subdir, MaxCopyDepth + 1)
          /\ PlansReplaced]_vars
\* What holds of C12: the links that are items of agents/ and skills/
\* themselves are left out, everything else is copied, and plans/ is replaced.
C12_ItemLinksExcluded ==
    [][ExportEnded =>
          /\ \A subdir \in {"agents", "skills"} :
                IsDir(fs, SrcClaude(last'.workspace, subdir)) =>
                    PlainCopied(subdir) /\ NoneFromLink(subdir, 1)
          /\ PlansReplaced]_vars
\* An export copied what a link inside a skill points at.
C12_InnerLinkFollowed ==
    /\ ExportRan(last) /\ exit = 0
    /\ IsSymlink(fs, SrcClaude(last.workspace, "skills") \o <<"tool", "ref.md">>)
    /\ Exists(fs, ExportedWs(fs, last) \o <<".claude", "skills", "tool", "ref.md">>)
    /\ ~IsSymlink(fs, ExportedWs(fs, last) \o <<".claude", "skills", "tool", "ref.md">>)
    /\ ~LExists(fs, ExportedWs(fs, last) \o <<".claude", "skills", "core">>)
\* No export replaces the plans/ an earlier export had left: this is refuted,
\* the step that does it is in the behaviours.
C12_OldPlanNotReplaced ==
    [][~(/\ ExportEnded
         /\ Exists(fs, ExportedWs(fs, last') \o <<"plans", "old.md">>)
         /\ ~LExists(fs', ExportedWs(fs', last') \o <<"plans", "old.md">>)
         /\ Exists(fs', ExportedWs(fs', last') \o <<"plans", "design.md">>))]_vars
\* An export of a workspace without plans/ left the plans/ of an earlier export.
C12_OldPlanKept ==
    /\ ExportRan(last) /\ exit = 0
    /\ ~Exists(fs, WsPath(last.workspace) \o <<"plans">>)
    /\ Exists(fs, ExportedWs(fs, last) \o <<"plans", "old.md">>)

====
